---------------------------- MODULE Spec2Model ----------------------------
(***************************************************************************)
(* Model of go-aperitif's api/apiparams package: the binder that fills a   *)
(* parameter struct from defaults, headers, the JSON body, the form, the   *)
(* query string and the route parameters, the reflector that parses single *)
(* string values into typed fields, and the validation step that reports   *)
(* rule violations under wire names.                                       *)
(*                                                                         *)
(* Go strings are sequences of one-character strings, so that ToLower,     *)
(* HasPrefix, Split and the byte loop of fieldMapper.Map are computed      *)
(* rather than assumed.                                                    *)
(***************************************************************************)
EXTENDS Integers, Sequences, FiniteSets, TLC

(***************************************************************************)
(* Strings                                                                 *)
(***************************************************************************)
Digits == <<"0", "1", "2", "3", "4", "5", "6", "7", "8", "9">>
UpperChars == <<"A", "B", "C", "D", "E", "F", "G", "H", "I", "J", "K", "L", "M",
                "N", "O", "P", "Q", "R", "S", "T", "U", "V", "W", "X", "Y", "Z">>
LowerChars == <<"a", "b", "c", "d", "e", "f", "g", "h", "i", "j", "k", "l", "m",
                "n", "o", "p", "q", "r", "s", "t", "u", "v", "w", "x", "y", "z">>

IsDigit(c) == \E i \in 1..10 : Digits[i] = c
DigitVal(c) == (CHOOSE i \in 1..10 : Digits[i] = c) - 1

\* strings.ToLower, one byte at a time (ASCII).
ToLowerChar(c) ==
    IF \E i \in 1..26 : UpperChars[i] = c
    THEN LowerChars[CHOOSE i \in 1..26 : UpperChars[i] = c]
    ELSE c
ToLower(s) == [i \in 1..Len(s) |-> ToLowerChar(s[i])]

\* strings.HasPrefix
HasPrefix(s, prefix) ==
    /\ Len(s) >= Len(prefix)
    /\ \A i \in 1..Len(prefix) : s[i] = prefix[i]

\* The case folding encoding/json uses to match an object key to a field.
EqualFold(a, b) == ToLower(a) = ToLower(b)

\* strings.Split(s, sep) for a one-byte separator.
RECURSIVE SplitFrom(_, _, _, _)
SplitFrom(s, sep, i, cur) ==
    IF i > Len(s) THEN <<cur>>
    ELSE IF s[i] = sep THEN <<cur>> \o SplitFrom(s, sep, i + 1, <<>>)
    ELSE SplitFrom(s, sep, i + 1, Append(cur, s[i]))
Split(s, sep) == SplitFrom(s, sep, 1, <<>>)

\* Decimal rendering of a slice index, as the validator writes it in a path.
RECURSIVE Itoa(_)
Itoa(n) == IF n < 10 THEN <<Digits[n + 1]>> ELSE Itoa(n \div 10) \o <<Digits[(n % 10) + 1]>>

(***************************************************************************)
(* String constants of the program                                         *)
(***************************************************************************)
ctJSON == <<"a", "p", "p", "l", "i", "c", "a", "t", "i", "o", "n", "/", "j", "s", "o", "n">>
ctJSONCharset == <<"a", "p", "p", "l", "i", "c", "a", "t", "i", "o", "n", "/", "j", "s", "o", "n", ";", " ", "c", "h", "a", "r", "s", "e", "t", "=", "u", "t", "f", "-", "8">>
ctXML == <<"a", "p", "p", "l", "i", "c", "a", "t", "i", "o", "n", "/", "x", "m", "l">>
ctForm == <<"a", "p", "p", "l", "i", "c", "a", "t", "i", "o", "n", "/", "x", "-", "w", "w", "w", "-", "f", "o", "r", "m", "-", "u", "r", "l", "e", "n", "c", "o", "d", "e", "d">>
hdrContentType == <<"C", "o", "n", "t", "e", "n", "t", "-", "T", "y", "p", "e">>

StatusBadRequest == 400
StatusUnsupportedMediaType == 415
StatusUnprocessableEntity == 422

(***************************************************************************)
(* strconv and time parsing.  A parse result is [ok, v].                   *)
(***************************************************************************)
ParseErr == [ok |-> FALSE]
ParseOk(v) == [ok |-> TRUE, v |-> v]

RECURSIVE DigitsValue(_)
DigitsValue(s) ==
    IF Len(s) = 0 THEN 0
    ELSE 10 * DigitsValue(SubSeq(s, 1, Len(s) - 1)) + DigitVal(s[Len(s)])

AllDigits(s) == Len(s) > 0 /\ \A i \in 1..Len(s) : IsDigit(s[i])

\* strconv.ParseInt(s, 10, bits): an optional sign, then at least one digit.
\* The inputs of this model are far inside the 32 and 64 bit ranges, so the
\* range error of ParseInt does not arise.
ParseInt(s) ==
    IF Len(s) = 0 THEN ParseErr
    ELSE IF s[1] = "-" THEN
        IF AllDigits(Tail(s)) THEN ParseOk(0 - DigitsValue(Tail(s))) ELSE ParseErr
    ELSE IF s[1] = "+" THEN
        IF AllDigits(Tail(s)) THEN ParseOk(DigitsValue(Tail(s))) ELSE ParseErr
    ELSE IF AllDigits(s) THEN ParseOk(DigitsValue(s)) ELSE ParseErr

\* strconv.ParseBool
BoolTrueStrings == {<<"1">>, <<"t">>, <<"T">>, <<"T", "R", "U", "E">>,
                    <<"t", "r", "u", "e">>, <<"T", "r", "u", "e">>}
BoolFalseStrings == {<<"0">>, <<"f">>, <<"F">>, <<"F", "A", "L", "S", "E">>,
                     <<"f", "a", "l", "s", "e">>, <<"F", "a", "l", "s", "e">>}
ParseBool(s) ==
    IF s \in BoolTrueStrings THEN ParseOk(TRUE)
    ELSE IF s \in BoolFalseStrings THEN ParseOk(FALSE)
    ELSE ParseErr

\* time.Parse(time.RFC3339, s) for the UTC form YYYY-MM-DDTHH:MM:SSZ, the
\* only form of a valid time among the inputs of this model.  A time value
\* is [t |-> <<year, month, day, hour, minute, second>>].
Num2(s, i) == 10 * DigitVal(s[i]) + DigitVal(s[i + 1])
DaysIn(y, m) ==
    IF m \in {4, 6, 9, 11} THEN 30
    ELSE IF m = 2 THEN (IF (y % 4 = 0 /\ y % 100 # 0) \/ y % 400 = 0 THEN 29 ELSE 28)
    ELSE 31
ParseTimeRFC3339(s) ==
    IF /\ Len(s) = 20
       /\ \A i \in {1, 2, 3, 4, 6, 7, 9, 10, 12, 13, 15, 16, 18, 19} : IsDigit(s[i])
       /\ s[5] = "-" /\ s[8] = "-" /\ s[11] = "T"
       /\ s[14] = ":" /\ s[17] = ":" /\ s[20] = "Z"
    THEN LET y == 100 * Num2(s, 1) + Num2(s, 3)
             mo == Num2(s, 6)
             d == Num2(s, 9)
             h == Num2(s, 12)
             mi == Num2(s, 15)
             se == Num2(s, 18)
         IN IF /\ mo \in 1..12 /\ d >= 1 /\ d <= DaysIn(y, mo)
               /\ h < 24 /\ mi < 60 /\ se < 60
            THEN ParseOk([t |-> <<y, mo, d, h, mi, se>>])
            ELSE ParseErr
    ELSE ParseErr
ZeroTime == [t |-> <<1, 1, 1, 0, 0, 0>>]


(***************************************************************************)
(* Types, field definitions and values                                     *)
(*                                                                         *)
(* A type is [kind] for int, string and bool, [kind |-> "slice", elem],    *)
(* [kind |-> "ptr", elem] or [kind |-> "struct", id, fields]; time.Time is *)
(* a struct without exported fields.  A field definition                   *)
(* (reflect.StructField) is [Name, Type, Tag, Anonymous, Validate]: Tag    *)
(* maps the tag keys that are present to their text, Validate is the       *)
(* parsed `validate` tag.  Values: an integer, a string, a boolean, a time,*)
(* [isnil, elems] for a slice, [isnil, elem] for a pointer, and a function *)
(* from field name to value for a struct.                                  *)
(***************************************************************************)
TInt == [kind |-> "int"]
TString == [kind |-> "string"]
TBool == [kind |-> "bool"]
TTime == [kind |-> "struct", id |-> "time.Time", fields |-> <<>>]
TSlice(e) == [kind |-> "slice", elem |-> e]
TPtr(e) == [kind |-> "ptr", elem |-> e]
TStruct(id, fields) == [kind |-> "struct", id |-> id, fields |-> fields]

typeOfStringSlice == TSlice(TString)
typeOfIntSlice == TSlice(TInt)

NilSlice == [isnil |-> TRUE, elems |-> <<>>]
MakeSlice(elems) == [isnil |-> FALSE, elems |-> elems]
NilPtr == [isnil |-> TRUE]
PtrTo(v) == [isnil |-> FALSE, elem |-> v]

FieldNames(t) == {t.fields[i].Name : i \in 1..Len(t.fields)}
FieldDefByName(t, name) == t.fields[CHOOSE i \in 1..Len(t.fields) : t.fields[i].Name = name]

\* The zero value of a type (what `hp := handlerParams{}` holds).
RECURSIVE Zero(_)
Zero(t) ==
    CASE t.kind = "int" -> 0
      [] t.kind = "string" -> <<>>
      [] t.kind = "bool" -> FALSE
      [] t.kind = "slice" -> NilSlice
      [] t.kind = "ptr" -> NilPtr
      [] t.kind = "struct" ->
            IF t = TTime THEN ZeroTime
            ELSE [n \in FieldNames(t) |-> Zero(FieldDefByName(t, n).Type)]

\* reflect.Value.FieldByName: the path to the field called name, through
\* embedded structs when the name is promoted; <<>> when there is none.
RECURSIVE FieldPathIn(_, _, _)
FieldPathByName(t, name) ==
    IF name \in FieldNames(t) THEN <<name>> ELSE FieldPathIn(t, name, 1)
FieldPathIn(t, name, i) ==
    IF i > Len(t.fields) THEN <<>>
    ELSE LET fd == t.fields[i]
             sub == IF fd.Anonymous /\ fd.Type.kind = "struct"
                    THEN FieldPathByName(fd.Type, name) ELSE <<>>
         IN IF sub # <<>> THEN <<fd.Name>> \o sub ELSE FieldPathIn(t, name, i + 1)

RECURSIVE TypeAt(_, _)
TypeAt(t, path) ==
    IF Len(path) = 0 THEN t ELSE TypeAt(FieldDefByName(t, Head(path)).Type, Tail(path))
RECURSIVE GetAt(_, _)
GetAt(v, path) == IF Len(path) = 0 THEN v ELSE GetAt(v[Head(path)], Tail(path))
RECURSIVE SetAt(_, _, _)
SetAt(v, path, x) ==
    IF Len(path) = 0 THEN x
    ELSE [v EXCEPT ![Head(path)] = SetAt(v[Head(path)], Tail(path), x)]

(***************************************************************************)
(* paramField                                                              *)
(***************************************************************************)
ParamSourceJSON == "json"
ParamSourceForm == "form"
ParamSourcePath == "path"
ParamSourceQuery == "query"
ParamSourceHeader == "header"
AllParamSources == <<ParamSourceJSON, ParamSourceForm, ParamSourcePath,
                     ParamSourceQuery, ParamSourceHeader>>

\* The first source of AllParamSources from position i whose tag is present
\* and not "-"; 0 when there is none.
RECURSIVE FirstSourceFrom(_, _)
FirstSourceFrom(fieldDef, i) ==
    IF i > Len(AllParamSources) THEN 0
    ELSE IF AllParamSources[i] \in DOMAIN fieldDef.Tag
            /\ fieldDef.Tag[AllParamSources[i]] # <<"-">>
         THEN i
         ELSE FirstSourceFrom(fieldDef, i + 1)

parseToParamField(fieldDef) ==
    LET i == FirstSourceFrom(fieldDef, 1) IN
    IF i = 0 THEN [found |-> FALSE]
    ELSE LET parts == Split(fieldDef.Tag[AllParamSources[i]], ",") IN
         [found |-> TRUE,
          Name |-> IF Len(parts) > 1 /\ parts[1] = <<>> THEN fieldDef.Name ELSE parts[1],
          Source |-> AllParamSources[i],
          StructField |-> fieldDef]

CanSetFrom(p, ps) == p.Source = ParamSourceJSON \/ p.Source = ps

(***************************************************************************)
(* reflector                                                               *)
(***************************************************************************)
Put(m, k, v) == [x \in DOMAIN m \cup {k} |-> IF x = k THEN v ELSE m[x]]
EmptyMap == [x \in {} |-> 0]

\* parseStructTags: the two indexes, filled field by field in declaration
\* order; a later field of the same key overwrites the earlier entry.
RECURSIVE parseStructTagsFrom(_, _, _)
parseStructTags(underlyingType, maps) == parseStructTagsFrom(underlyingType, 1, maps)
parseStructTagsFrom(underlyingType, i, maps) ==
    IF i > Len(underlyingType.fields) THEN maps
    ELSE LET fieldDef == underlyingType.fields[i]
             m1 == IF fieldDef.Anonymous THEN parseStructTags(fieldDef.Type, maps) ELSE maps
             pf == parseToParamField(fieldDef)
             m2 == [byJson |-> Put(m1.byJson, pf.Name, pf),
                    byField |-> Put(m1.byField, fieldDef.Name, pf.Name)]
             m3 == IF ~pf.found THEN m1
                   ELSE IF fieldDef.Type.kind = "struct" THEN parseStructTags(fieldDef.Type, m2)
                   ELSE IF fieldDef.Type.kind = "slice" /\ fieldDef.Type.elem.kind = "struct"
                        THEN parseStructTags(fieldDef.Type.elem, m2)
                   ELSE m2
         IN parseStructTagsFrom(underlyingType, i + 1, m3)

\* The built-in custom type of apiparams.go's init: time.Time, parsed as
\* RFC 3339, without a defaulter.
defaultCustomTypes == <<[Type |-> TTime, Parser |-> "rfc3339", Defaulter |-> "none"]>>

\* A Parser: (value, usePtr) -> reflect.Value or error.  "rfc3339" is the
\* parser of time.Time registered by init; "unixtime" is the parser the
\* package's tests register for UnixTime (strconv.Atoi, then time.Unix).
ParseUnixTime(value) ==
    IF ParseInt(value).ok THEN ParseOk([unix |-> ParseInt(value).v]) ELSE ParseErr
ApplyParser(p, value, usePtr) ==
    LET r == IF p = "unixtime" THEN ParseUnixTime(value) ELSE ParseTimeRFC3339(value) IN
    IF ~r.ok THEN [r |-> "err"]
    ELSE [r |-> "ok", v |-> IF usePtr THEN PtrTo(r.v) ELSE r.v]

FromParse(res, isPtr) ==
    IF ~res.ok THEN [r |-> "err"]
    ELSE [r |-> "ok", v |-> IF isPtr THEN PtrTo(res.v) ELSE res.v]

\* reflect.Append(sliceVal, elementVal)
appendReplacing(sliceVal, elementVal) == MakeSlice(<<elementVal>>)
appendElement(sliceVal, elementVal) == MakeSlice(Append(sliceVal.elems, elementVal))

\* parseValue: [r |-> "ok", v], [r |-> "err"] or [r |-> "panic"]
\* (panicUnsupportedType).  fieldType is the type of the value `field`.
RECURSIVE parseValue(_, _, _, _, _)
parseValue(typeParsers, t, fieldType, field, value) ==
    LET isPtr == t.kind = "ptr"
        fieldValueType == IF isPtr THEN t.elem ELSE t
    IN
    IF fieldValueType \in DOMAIN typeParsers
    THEN ApplyParser(typeParsers[fieldValueType], value, isPtr)
    ELSE CASE fieldValueType.kind = "int" -> FromParse(ParseInt(value), isPtr)
           [] fieldValueType.kind = "string" -> FromParse(ParseOk(value), isPtr)
           [] fieldValueType.kind = "bool" -> FromParse(ParseBool(value), isPtr)
           [] fieldValueType.kind = "slice" ->
                \* field.Elem() and field.IsNil() panic on a value that is
                \* not of the pointer or slice type parsed for.
                IF fieldType # t THEN [r |-> "panic"]
                ELSE
                LET sliceVal == IF field.isnil THEN MakeSlice(<<>>)
                                ELSE IF isPtr THEN field.elem ELSE field
                    elementVal == parseValue(typeParsers, fieldValueType.elem,
                                             fieldValueType, sliceVal, value)
                IN IF elementVal.r # "ok" THEN elementVal
                   ELSE LET newSliceVal == appendElement(sliceVal, elementVal.v) IN
                        IF fieldValueType = typeOfStringSlice \/ fieldValueType = typeOfIntSlice
                        THEN [r |-> "ok", v |-> IF isPtr THEN PtrTo(newSliceVal) ELSE newSliceVal]
                        ELSE [r |-> "panic"]
           [] OTHER -> [r |-> "panic"]

\* A setField that assigned the zero value to the field when the parse
\* failed.
reflectorSetFieldClearing(typeParsers, st, hp, fieldDef, path, value) ==
    IF path = <<>> THEN [r |-> "panic", hp |-> hp]
    ELSE LET ft == TypeAt(st, path)
             v == parseValue(typeParsers, fieldDef.Type, ft, GetAt(hp, path), value)
         IN IF v.r = "err" THEN [r |-> v.r, hp |-> SetAt(hp, path, Zero(ft))]
            ELSE IF v.r # "ok" THEN [r |-> v.r, hp |-> hp]
            ELSE IF ft # fieldDef.Type THEN [r |-> "panic", hp |-> hp]
            ELSE [r |-> "ok", hp |-> SetAt(hp, path, v.v)]

\* reflector.setField on the struct value hp of type st: the field found at
\* path (<<>>: an invalid reflect.Value, which cannot be set) receives the
\* parsed value.  [r, hp].
reflectorSetField(typeParsers, st, hp, fieldDef, path, value) ==
    IF path = <<>> THEN [r |-> "panic", hp |-> hp]
    ELSE LET ft == TypeAt(st, path)
             v == parseValue(typeParsers, fieldDef.Type, ft, GetAt(hp, path), value)
         IN IF v.r # "ok" THEN [r |-> v.r, hp |-> hp]
            ELSE IF ft # fieldDef.Type THEN [r |-> "panic", hp |-> hp]
            ELSE [r |-> "ok", hp |-> SetAt(hp, path, v.v)]

(***************************************************************************)
(* Handler construction (New, newReflector, newBinder)                     *)
(***************************************************************************)
RECURSIVE registerCustomTypes(_, _, _)
registerCustomTypes(h, defs, i) ==
    IF i > Len(defs) THEN h
    ELSE registerCustomTypes(
            [h EXCEPT !.typeParsers = Put(@, defs[i].Type, defs[i].Parser),
                      !.typeDefaulters = Put(@, defs[i].Type, defs[i].Defaulter)],
            defs, i + 1)

\* New: the reflector's two indexes over the parameter struct type st, and
\* the parsers and defaulters of the process-wide registry.
NewWith(st, registry) ==
    LET maps == parseStructTags(st, [byJson |-> EmptyMap, byField |-> EmptyMap]) IN
    registerCustomTypes(
        [paramFieldsByJsonName |-> maps.byJson,
         jsonNamesByFieldName |-> maps.byField,
         typeParsers |-> EmptyMap,
         typeDefaulters |-> EmptyMap],
        registry, 1)
New(st) == NewWith(st, defaultCustomTypes)

(***************************************************************************)
(* binder                                                                  *)
(***************************************************************************)
\* binder.setField: [r, hp] with r "ok", "err" (a 400) or "panic".
binderSetFieldCore(h, st, hp, paramName, paramValue, source) ==
    IF \/ paramName \notin DOMAIN h.paramFieldsByJsonName
       \/ ~CanSetFrom(h.paramFieldsByJsonName[paramName], source)
    THEN [r |-> "ok", hp |-> hp]
    ELSE LET fieldDef == h.paramFieldsByJsonName[paramName].StructField IN
         reflectorSetField(h.typeParsers, st, hp, fieldDef,
                           FieldPathByName(st, fieldDef.Name), paramValue)

binderSetFieldStrict(h, st, hp, paramName, paramValue, source) ==
    IF paramName \notin DOMAIN h.paramFieldsByJsonName THEN [r |-> "err", hp |-> hp]
    ELSE binderSetFieldCore(h, st, hp, paramName, paramValue, source)
binderSetFieldSwallowing(h, st, hp, paramName, paramValue, source) ==
    LET one == binderSetFieldCore(h, st, hp, paramName, paramValue, source) IN
    IF one.r = "err" THEN [r |-> "ok", hp |-> hp] ELSE one
binderSetField(h, st, hp, paramName, paramValue, source) ==
    binderSetFieldCore(h, st, hp, paramName, paramValue, source)

\* The key/value pairs of a url.Values or http.Header, keys in the order
\* keyOrder, each key's values in their stored order.
RECURSIVE OffersOf(_, _)
OffersOf(m, keyOrder) ==
    IF Len(keyOrder) = 0 THEN <<>>
    ELSE [i \in 1..Len(m[Head(keyOrder)]) |-> <<Head(keyOrder), m[Head(keyOrder)][i]>>]
         \o OffersOf(m, Tail(keyOrder))

\* The orders in which a `range` over a Go map may visit its keys.
KeyOrders(m) ==
    {o \in [1..Cardinality(DOMAIN m) -> DOMAIN m] :
        \A i, j \in DOMAIN o : i # j => o[i] # o[j]}

\* The loop of a stage: setField for each pair, returning at the first error.
RECURSIVE setAll(_, _, _, _, _)
setAll(h, st, hp, offers, source) ==
    IF Len(offers) = 0 THEN [r |-> "ok", hp |-> hp]
    ELSE LET one == binderSetField(h, st, hp, Head(offers)[1], Head(offers)[2], source) IN
         IF one.r # "ok" THEN one
         ELSE setAll(h, st, one.hp, Tail(offers), source)

LowerKeys(offers) == [i \in 1..Len(offers) |-> <<ToLower(offers[i][1]), offers[i][2]>>]

\* A Defaulter: "double" is the one the package's tests register for
\* UnixTime (strconv.Itoa(i * 2)); "none" is a nil Defaulter.
ApplyDefaulter(d, value) ==
    IF d = "double" THEN Itoa(ParseInt(value).v * 2) ELSE value

\* b.typeDefaulters[fieldDef.Type], applied when it is not nil
defaultValue(h, fieldDef) ==
    IF fieldDef.Type \in DOMAIN h.typeDefaulters /\ h.typeDefaulters[fieldDef.Type] # "none"
    THEN ApplyDefaulter(h.typeDefaulters[fieldDef.Type], fieldDef.Tag["default"])
    ELSE fieldDef.Tag["default"]

\* setFromDefaults on the struct value v of type t: [r, v], r "ok" or "panic".
RECURSIVE setFromDefaultsFrom(_, _, _, _)
setFromDefaultsLenient(h, t, v) ==
    LET r == setFromDefaultsFrom(h, t, v, 1) IN
    IF r.r = "panic" THEN [r |-> "err", v |-> r.v] ELSE r
setFromDefaultsNone(h, t, v) == [r |-> "ok", v |-> v]
setFromDefaults(h, t, v) == setFromDefaultsFrom(h, t, v, 1)
setFromDefaultsFrom(h, t, v, i) ==
    IF i > Len(t.fields) THEN [r |-> "ok", v |-> v]
    ELSE LET fieldDef == t.fields[i]
             sub == IF fieldDef.Type.kind = "struct"
                    THEN setFromDefaults(h, fieldDef.Type, v[fieldDef.Name])
                    ELSE [r |-> "ok", v |-> v[fieldDef.Name]]
             v1 == [v EXCEPT ![fieldDef.Name] = sub.v]
         IN IF sub.r # "ok" THEN [r |-> sub.r, v |-> v1]
            ELSE IF "default" \notin DOMAIN fieldDef.Tag \/ fieldDef.Tag["default"] = <<>>
            THEN setFromDefaultsFrom(h, t, v1, i + 1)
            ELSE LET set == reflectorSetField(h.typeParsers, t, v1, fieldDef,
                                              <<fieldDef.Name>>, defaultValue(h, fieldDef))
                 IN IF set.r # "ok" THEN [r |-> "panic", v |-> v1]
                    ELSE setFromDefaultsFrom(h, t, set.hp, i + 1)

(***************************************************************************)
(* encoding/json: Decode of a parsed document into a value.  A document is *)
(* [j |-> "null"], [j |-> "num", n], [j |-> "str", s], [j |-> "bool", b], *)
(* [j |-> "arr", a] (a sequence of documents) or [j |-> "obj", o] (a      *)
(* sequence of <<key, document>> members).  The result is [r, v]: r is    *)
(* "ok", "typeerr" (an UnmarshalTypeError, after which decoding goes on)   *)
(* or "err" (an error of an UnmarshalJSON method, which stops decoding).   *)
(***************************************************************************)
\* The name encoding/json knows a field by, <<>> for a field it skips.
jsonName(fieldDef) ==
    IF "json" \notin DOMAIN fieldDef.Tag THEN fieldDef.Name
    ELSE IF fieldDef.Tag["json"] = <<"-">> THEN <<>>
    ELSE LET parts == Split(fieldDef.Tag["json"], ",") IN
         IF parts[1] = <<>> THEN fieldDef.Name ELSE parts[1]

IsPromoting(fieldDef) ==
    fieldDef.Anonymous /\ fieldDef.Type.kind = "struct" /\ "json" \notin DOMAIN fieldDef.Tag

\* The fields of struct type t as encoding/json lists them: <<name, path>>.
RECURSIVE jsonFields(_)
RECURSIVE jsonFieldsFrom(_, _)
jsonFields(t) == jsonFieldsFrom(t, 1)
jsonFieldsFrom(t, i) ==
    IF i > Len(t.fields) THEN <<>>
    ELSE LET fieldDef == t.fields[i]
             here == IF IsPromoting(fieldDef)
                     THEN LET sub == jsonFields(fieldDef.Type) IN
                          [k \in 1..Len(sub) |-> <<sub[k][1], <<fieldDef.Name>> \o sub[k][2]>>]
                     ELSE IF jsonName(fieldDef) = <<>> THEN <<>>
                     ELSE << <<jsonName(fieldDef), <<fieldDef.Name>>>> >>
         IN here \o jsonFieldsFrom(t, i + 1)

\* The field an object key selects: an exact match, else the first
\* case-insensitive one; 0 when the key is unknown.
jsonFieldFor(fs, key) ==
    IF \E i \in 1..Len(fs) : fs[i][1] = key
    THEN CHOOSE i \in 1..Len(fs) : fs[i][1] = key
    ELSE IF \E i \in 1..Len(fs) : EqualFold(fs[i][1], key)
    THEN CHOOSE i \in 1..Len(fs) :
            /\ EqualFold(fs[i][1], key)
            /\ \A k \in 1..(i - 1) : ~EqualFold(fs[k][1], key)
    ELSE 0

WorstOf(a, b) == IF a = "err" \/ b = "err" THEN "err"
                 ELSE IF a = "typeerr" \/ b = "typeerr" THEN "typeerr" ELSE "ok"

RECURSIVE jsonDecodeValue(_, _, _)
RECURSIVE jsonDecodeMembers(_, _, _, _)
RECURSIVE jsonDecodeElems(_, _, _)
jsonDecodeValue(t, v, doc) ==
    IF doc.j = "null" THEN
        [r |-> "ok", v |-> IF t.kind = "ptr" THEN NilPtr
                           ELSE IF t.kind = "slice" THEN NilSlice ELSE v]
    ELSE IF t.kind = "ptr" THEN
        LET inner == jsonDecodeValue(t.elem, IF v.isnil THEN Zero(t.elem) ELSE v.elem, doc)
        IN [r |-> inner.r, v |-> PtrTo(inner.v)]
    ELSE IF t = TTime THEN
        IF doc.j = "str" /\ ParseTimeRFC3339(doc.s).ok
        THEN [r |-> "ok", v |-> ParseTimeRFC3339(doc.s).v]
        ELSE [r |-> "err", v |-> v]
    ELSE CASE t.kind = "int" ->
                IF doc.j = "num" THEN [r |-> "ok", v |-> doc.n] ELSE [r |-> "typeerr", v |-> v]
           [] t.kind = "string" ->
                IF doc.j = "str" THEN [r |-> "ok", v |-> doc.s] ELSE [r |-> "typeerr", v |-> v]
           [] t.kind = "bool" ->
                IF doc.j = "bool" THEN [r |-> "ok", v |-> doc.b] ELSE [r |-> "typeerr", v |-> v]
           [] t.kind = "slice" ->
                IF doc.j = "arr"
                THEN LET es == jsonDecodeElems(t.elem, doc.a, 1) IN
                     [r |-> es.r, v |-> MakeSlice(es.v)]
                ELSE [r |-> "typeerr", v |-> v]
           [] t.kind = "struct" ->
                IF doc.j = "obj" THEN jsonDecodeMembers(t, v, doc.o, 1)
                ELSE [r |-> "typeerr", v |-> v]
jsonDecodeElems(et, docs, i) ==
    IF i > Len(docs) THEN [r |-> "ok", v |-> <<>>]
    ELSE LET one == jsonDecodeValue(et, Zero(et), docs[i]) IN
         IF one.r = "err" THEN [r |-> "err", v |-> <<one.v>>]
         ELSE LET rest == jsonDecodeElems(et, docs, i + 1) IN
              [r |-> WorstOf(one.r, rest.r), v |-> <<one.v>> \o rest.v]
jsonDecodeMembers(t, v, members, i) ==
    IF i > Len(members) THEN [r |-> "ok", v |-> v]
    ELSE LET fs == jsonFields(t)
             k == jsonFieldFor(fs, members[i][1])
         IN IF k = 0 THEN jsonDecodeMembers(t, v, members, i + 1)
            ELSE LET path == fs[k][2]
                     one == jsonDecodeValue(TypeAt(t, path), GetAt(v, path), members[i][2])
                     v1 == SetAt(v, path, one.v)
                 IN IF one.r = "err" THEN [r |-> "err", v |-> v1]
                    ELSE LET rest == jsonDecodeMembers(t, v1, members, i + 1) IN
                         [r |-> WorstOf(one.r, rest.r), v |-> rest.v]

\* binder.decodeJSON on a request body: "json" bodies hold a document,
\* "text" bodies hold bytes that are not JSON (a SyntaxError).
decodeJSON(st, hp, body) ==
    IF body.kind = "text" THEN [r |-> "err", hp |-> hp]
    ELSE LET d == jsonDecodeValue(st, hp, body.doc) IN
         [r |-> IF d.r = "ok" THEN "ok" ELSE "err", hp |-> d.v]

(***************************************************************************)
(* Validation (Handler.Validate): the walk of the validator over the bound *)
(* struct, with the rules `nonzero` and `min=N`, and the translation of    *)
(* its field paths to wire names.                                          *)
(***************************************************************************)
msgZero == <<"z", "e", "r", "o", " ", "v", "a", "l", "u", "e">>
msgMin == <<"l", "e", "s", "s", " ", "t", "h", "a", "n", " ", "m", "i", "n">>

\* The length or value a `min` rule compares.
Measure(t, v) ==
    CASE t.kind = "int" -> v
      [] t.kind = "string" -> Len(v)
      [] t.kind = "slice" -> Len(v.elems)
      [] OTHER -> 0

RuleFails(rule, t, v) ==
    IF rule.rule = "nonzero" THEN v = Zero(t)
    ELSE Measure(t, v) < rule.n
RuleMessage(rule) == IF rule.rule = "nonzero" THEN msgZero ELSE msgMin

RECURSIVE FailedRules(_, _, _, _)
FailedRules(rules, t, v, i) ==
    IF i > Len(rules) THEN <<>>
    ELSE (IF RuleFails(rules[i], t, v) THEN <<RuleMessage(rules[i])>> ELSE <<>>)
         \o FailedRules(rules, t, v, i + 1)

Prefixed(prefix, entries) ==
    [k \in 1..Len(entries) |-> <<prefix \o entries[k][1], entries[k][2]>>]

\* validator.Validate: the entries <<field path, messages>> of the
\* ErrorMap, nested structs as Parent.Child and slices of structs as
\* Parent[i].Child.
RECURSIVE validateStruct(_, _, _)
RECURSIVE validateElems(_, _, _, _)
validateStruct(t, v, i) ==
    IF i > Len(t.fields) THEN <<>>
    ELSE LET fieldDef == t.fields[i]
             f == v[fieldDef.Name]
             errs == FailedRules(fieldDef.Validate, fieldDef.Type, f, 1)
             own == IF Len(errs) > 0 THEN << <<fieldDef.Name, errs>> >> ELSE <<>>
             deep == IF fieldDef.Type.kind = "struct" /\ fieldDef.Type # TTime
                     THEN Prefixed(fieldDef.Name \o <<".">>, validateStruct(fieldDef.Type, f, 1))
                     ELSE IF fieldDef.Type.kind = "slice" /\ fieldDef.Type.elem.kind = "struct"
                     THEN validateElems(fieldDef.Name, fieldDef.Type.elem, f.elems, 1)
                     ELSE <<>>
         IN deep \o own \o validateStruct(t, v, i + 1)
validateElems(fname, et, elems, k) ==
    IF k > Len(elems) THEN <<>>
    ELSE Prefixed(fname \o <<"[">> \o Itoa(k - 1) \o <<"]", ".">>,
                  validateStruct(et, elems[k], 1))
         \o validateElems(fname, et, elems, k + 1)

\* fieldMapper.mapAndFlushRun: [buffer, run] after the call.
Lookup(m, k) == IF k \in DOMAIN m THEN m[k] ELSE <<>>
mapAndFlushRun(lookup, f) ==
    IF Len(f.run) = 0 THEN f
    ELSE [buffer |-> f.buffer \o Lookup(lookup, f.run), run |-> <<>>, inIndex |-> f.inIndex]

\* fieldMapper.Map, byte by byte.
RECURSIVE MapFrom(_, _, _, _)
MapFrom(lookup, fieldName, i, f) ==
    IF i > Len(fieldName) THEN mapAndFlushRun(lookup, f).buffer
    ELSE LET b == fieldName[i]
             g == mapAndFlushRun(lookup, f)
             next ==
                IF b = "." THEN [g EXCEPT !.buffer = Append(@, b)]
                ELSE IF b = "[" THEN [g EXCEPT !.buffer = Append(@, b), !.inIndex = TRUE]
                ELSE IF b = "]" THEN [f EXCEPT !.buffer = Append(@, b), !.inIndex = FALSE]
                ELSE IF f.inIndex THEN [f EXCEPT !.buffer = Append(@, b)]
                ELSE [f EXCEPT !.run = Append(@, b)]
         IN MapFrom(lookup, fieldName, i + 1, next)
MapFieldNameToParamName(h, fieldName) ==
    MapFrom(h.jsonNamesByFieldName, fieldName, 1,
            [buffer |-> <<>>, run |-> <<>>, inIndex |-> FALSE])

\* formatErrors: one line "<param path>: <message>" per error, the keys of
\* the ErrorMap in the order keyOrder.
RECURSIVE LinesOf(_, _, _)
LinesOf(h, entry, k) ==
    IF k > Len(entry[2]) THEN <<>>
    ELSE <<MapFieldNameToParamName(h, entry[1]) \o <<":", " ">> \o entry[2][k]>>
         \o LinesOf(h, entry, k + 1)
RECURSIVE formatErrors(_, _, _, _)
formatErrors(h, entries, keyOrder, i) ==
    IF i > Len(keyOrder) THEN <<>>
    ELSE LinesOf(h, entries[keyOrder[i]], 1) \o formatErrors(h, entries, keyOrder, i + 1)

IndexOrders(n) ==
    {o \in [1..n -> 1..n] : \A i, j \in 1..n : i # j => o[i] # o[j]}

(***************************************************************************)
(* Parameter structs and requests of the model                             *)
(***************************************************************************)
\* How often one key may be repeated in a query string.
MaxRepeat == 3
\* How many elements a JSON array of the body may hold.
MaxElems == 2

sAbc == <<"a", "b", "c">>
Fld(name, type, tag, validate) ==
    [Name |-> name, Type |-> type, Tag |-> tag, Anonymous |-> FALSE, Validate |-> validate]
NoRules == <<>>
RuleMin(n) == [rule |-> "min", n |-> n]
RuleNonzero == [rule |-> "nonzero", n |-> 0]

\* type emptyHandlerParams struct{}
emptyHandlerParams == TStruct("emptyHandlerParams", <<>>)

\* struct { ID int `path:"id"`; X int `json:"x" default:"1"`;
\*          N int `query:"n" validate:"min=1"` }
scalarParams ==
    TStruct("scalarParams", <<
        Fld(<<"I", "D">>, TInt, ("path" :> <<"i", "d">>), NoRules),
        Fld(<<"X">>, TInt, ("json" :> <<"x">>) @@ ("default" :> <<"1">>), NoRules),
        Fld(<<"N">>, TInt, ("query" :> <<"n">>), <<RuleMin(1)>>) >>)

\* struct { Tag []string `json:"tag"`; Ints []int `json:"ints"`;
\*          More *[]int `query:"more"` }
sliceParams ==
    TStruct("sliceParams", <<
        Fld(<<"T", "a", "g">>, TSlice(TString), ("json" :> <<"t", "a", "g">>), NoRules),
        Fld(<<"I", "n", "t", "s">>, TSlice(TInt), ("json" :> <<"i", "n", "t", "s">>), NoRules),
        Fld(<<"M", "o", "r", "e">>, TPtr(TSlice(TInt)), ("query" :> <<"m", "o", "r", "e">>), NoRules) >>)

\* struct { FormTag int `form:"formTag"`; JSONTag int `json:"jsonTag"` }
formParams ==
    TStruct("formParams", <<
        Fld(<<"F", "o", "r", "m", "T", "a", "g">>, TInt,
            ("form" :> <<"f", "o", "r", "m", "T", "a", "g">>), NoRules),
        Fld(<<"J", "S", "O", "N", "T", "a", "g">>, TInt,
            ("json" :> <<"j", "s", "o", "n", "T", "a", "g">>), NoRules) >>)

\* struct { CT int `header:"content-type"`; B bool `query:"b"`;
\*          At time.Time `json:"at"` }
typedParams ==
    TStruct("typedParams", <<
        Fld(<<"C", "T">>, TInt,
            ("header" :> <<"c", "o", "n", "t", "e", "n", "t", "-", "t", "y", "p", "e">>), NoRules),
        Fld(<<"B">>, TBool, ("query" :> <<"b">>), NoRules),
        Fld(<<"A", "t">>, TTime, ("json" :> <<"a", "t">>), NoRules) >>)

\* struct { Nested struct { S string `json:"s" validate:"nonzero,min=2"` } `json:"nested"`
\*          Slice []struct { I int `json:"i" validate:"min=1"` } `json:"slice"` }
nestedParams ==
    TStruct("nestedParams", <<
        Fld(<<"N", "e", "s", "t", "e", "d">>,
            TStruct("nestedParams.Nested",
                    <<Fld(<<"S">>, TString, ("json" :> <<"s">>), <<RuleNonzero, RuleMin(2)>>)>>),
            ("json" :> <<"n", "e", "s", "t", "e", "d">>), NoRules),
        Fld(<<"S", "l", "i", "c", "e">>,
            TSlice(TStruct("nestedParams.Slice",
                           <<Fld(<<"I">>, TInt, ("json" :> <<"i">>), <<RuleMin(1)>>)>>)),
            ("json" :> <<"s", "l", "i", "c", "e">>), NoRules) >>)

\* struct { A struct { X int `json:"ax" validate:"min=1"` } `json:"a"`
\*          B struct { X int `json:"bx" validate:"min=1"` } `json:"b"` }
twinParams ==
    TStruct("twinParams", <<
        Fld(<<"A">>,
            TStruct("twinParams.A", <<Fld(<<"X">>, TInt, ("json" :> <<"a", "x">>), <<RuleMin(1)>>)>>),
            ("json" :> <<"a">>), NoRules),
        Fld(<<"B">>,
            TStruct("twinParams.B", <<Fld(<<"X">>, TInt, ("json" :> <<"b", "x">>), <<RuleMin(1)>>)>>),
            ("json" :> <<"b">>), NoRules) >>)

\* struct { S string `json:"s" default:"hi"`; I *int `default:"10"`;
\*          P *string `json:"p" default:"abc"`; Z int `json:"z"`;
\*          L []int `json:"l" default:"4"`;
\*          A struct { AA string `default:"eggs"`; B bool `default:"true"`; Z int } }
defaultsParams ==
    TStruct("defaultsParams", <<
        Fld(<<"S">>, TString, ("json" :> <<"s">>) @@ ("default" :> <<"h", "i">>), NoRules),
        Fld(<<"I">>, TPtr(TInt), ("default" :> <<"1", "0">>), NoRules),
        Fld(<<"P">>, TPtr(TString), ("json" :> <<"p">>) @@ ("default" :> sAbc), NoRules),
        Fld(<<"Z">>, TInt, ("json" :> <<"z">>), NoRules),
        Fld(<<"L">>, TSlice(TInt), ("json" :> <<"l">>) @@ ("default" :> <<"4">>), NoRules),
        Fld(<<"A">>,
            TStruct("defaultsParams.A", <<
                Fld(<<"A", "A">>, TString, ("default" :> <<"e", "g", "g", "s">>), NoRules),
                Fld(<<"B">>, TBool, ("default" :> <<"t", "r", "u", "e">>), NoRules),
                Fld(<<"Z">>, TInt, <<>>, NoRules) >>),
            <<>>, NoRules) >>)

\* struct { A int `default:"abc"` }
badDefaultParams ==
    TStruct("badDefaultParams", <<Fld(<<"A">>, TInt, ("default" :> sAbc), NoRules)>>)

\* struct { S string `json:"s" default:"hi"`
\*          In struct { B *bool `default:"abc"` } }
badNestedDefaultParams ==
    TStruct("badNestedDefaultParams", <<
        Fld(<<"S">>, TString, ("json" :> <<"s">>) @@ ("default" :> <<"h", "i">>), NoRules),
        Fld(<<"I", "n">>,
            TStruct("badNestedDefaultParams.In",
                    <<Fld(<<"B">>, TPtr(TBool), ("default" :> sAbc), NoRules)>>),
            <<>>, NoRules) >>)

\* struct { Set string `json:"set"`; ThisName string `json:","`;
\*          Dash string `json:"-,"`; Ignore string `json:"-"`;
\*          Both string `header:"h" query:"q"`; Skip string `json:"-" form:"f"`;
\*          Opt string `path:"o,omitempty"`; Bare string }
tagParams ==
    TStruct("tagParams", <<
        Fld(<<"S", "e", "t">>, TString, ("json" :> <<"s", "e", "t">>), NoRules),
        Fld(<<"T", "h", "i", "s", "N", "a", "m", "e">>, TString, ("json" :> <<",">>), NoRules),
        Fld(<<"D", "a", "s", "h">>, TString, ("json" :> <<"-", ",">>), NoRules),
        Fld(<<"I", "g", "n", "o", "r", "e">>, TString, ("json" :> <<"-">>), NoRules),
        Fld(<<"B", "o", "t", "h">>, TString, ("header" :> <<"h">>) @@ ("query" :> <<"q">>), NoRules),
        Fld(<<"S", "k", "i", "p">>, TString, ("json" :> <<"-">>) @@ ("form" :> <<"f">>), NoRules),
        Fld(<<"O", "p", "t">>, TString,
            ("path" :> <<"o", ",", "o", "m", "i", "t", "e", "m", "p", "t", "y">>), NoRules),
        Fld(<<"B", "a", "r", "e">>, TString, <<>>, NoRules) >>)

\* struct { X int; In struct { X int `json:"x"` } `json:"in"` }
shadowParams ==
    TStruct("shadowParams", <<
        Fld(<<"X">>, TInt, <<>>, NoRules),
        Fld(<<"I", "n">>,
            TStruct("shadowParams.In", <<Fld(<<"X">>, TInt, ("json" :> <<"x">>), NoRules)>>),
            ("json" :> <<"i", "n">>), NoRules) >>)

JNum(n) == [j |-> "num", n |-> n]
JStr(x) == [j |-> "str", s |-> x]
JArr(x) == [j |-> "arr", a |-> x]
JObj(x) == [j |-> "obj", o |-> x]

NoBody == [kind |-> "empty"]
JSONBody(doc) == [kind |-> "json", doc |-> doc]
TextBody == [kind |-> "text"]
NoValues == EmptyMap
One(k, v) == (k :> <<v>>)

timeGood == <<"2", "0", "5", "0", "-", "0", "6", "-", "0", "4", "T", "0", "5", ":", "4", "8", ":", "3", "6", "Z">>
timeBad == <<"2", "0", "5", "0", "-", "1", "3", "-", "0", "4", "T", "0", "5", ":", "4", "8", ":", "3", "6", "Z">>

\* The first n values of a fixed list, for a key repeated n times.
Pool == <<"c", "a", "b", "d", "e">>
Repeat(n) == [i \in 1..n |-> <<Pool[i]>>]
RepeatInts(n) == [i \in 1..n |-> <<Digits[i + 1]>>]
ArrayKey(k) == k \o <<"[", "]">>

ContentTypes == {<<>>, ctJSON, ctJSONCharset, ctXML, ctForm}
WithContentType(ct, extra) ==
    IF ct = <<>> THEN extra ELSE (hdrContentType :> <<ct>>) @@ extra

\* A request: Header, Body (ContentLength is 0 iff the body is empty),
\* Form, Query (req.URL.Query()) and the route parameters of the adapter.
Request(header, body, form, query, keys, values) ==
    [Header |-> header, Body |-> body, Form |-> form, Query |-> query,
     routeParamKeys |-> keys, routeParamValues |-> values]
ContentLength(r) == IF r.Body.kind = "empty" THEN 0 ELSE 1

\* Requests against scalarParams: each channel may carry the wire name x
\* or id, with a value that parses or one that does not.
scalarRequests ==
    {Request(IF b = NoBody THEN h ELSE WithContentType(ctJSON, h), b, f, q, p[1], p[2]) :
        h \in {NoValues, One(<<"X">>, <<"2">>), One(<<"I", "d">>, <<"2">>)},
        b \in {NoBody,
               JSONBody(JObj(<< <<<<"x">>, JNum(3)>> >>)),
               JSONBody(JObj(<< <<<<"i", "d">>, JNum(7)>> >>)),
               JSONBody(JObj(<< <<<<"x">>, JStr(sAbc)>> >>))},
        f \in {NoValues, One(<<"x">>, <<"4">>), One(<<"x">>, sAbc)},
        q \in {NoValues, One(<<"x">>, <<"5">>), One(<<"x">>, sAbc),
               One(<<"i", "d">>, <<"5">>), One(<<"n">>, <<"1">>)},
        p \in {<< <<>>, <<>> >>, << <<<<"x">>>>, <<<<"6">>>> >>, << <<<<"x">>>>, <<sAbc>> >>,
               << <<<<"i", "d">>>>, <<<<"8">>>> >>}}

\* Requests that vary the Content-Type and the body.
mediaBodies ==
    {NoBody, TextBody, JSONBody(JObj(<<>>)),
     JSONBody(JObj(<< <<<<"a", "t">>, JStr(timeGood)>> >>)),
     JSONBody(JObj(<< <<<<"a", "t">>, JStr(timeBad)>> >>))}
formValues ==
    (<<"f", "o", "r", "m", "T", "a", "g">> :> <<<<"1", "2", "3">>>>)
    @@ (<<"j", "s", "o", "n", "T", "a", "g">> :> <<<<"4", "5", "6">>>>)
mediaRequests ==
    {Request(WithContentType(ct, NoValues), b, f, q, <<>>, <<>>) :
        ct \in ContentTypes,
        b \in mediaBodies,
        f \in {NoValues, formValues},
        q \in {NoValues, One(<<"b">>, <<"t", "r", "u", "e">>), One(<<"b">>, sAbc),
               One(<<"a", "t">>, timeGood), One(<<"a", "t">>, timeBad)}}

\* Requests against sliceParams: repeated keys, with and without the
\* array suffix.
sliceQueries ==
    {NoValues,
     (<<"i", "n", "t", "s">> :> <<<<"1">>, sAbc>>)}
    \cup {(k :> Repeat(n)) : k \in {<<"t", "a", "g">>, ArrayKey(<<"t", "a", "g">>)},
                            n \in 1..MaxRepeat}
    \cup {(k :> RepeatInts(n)) : k \in {<<"i", "n", "t", "s">>, ArrayKey(<<"i", "n", "t", "s">>),
                                       <<"m", "o", "r", "e">>},
                                n \in 1..MaxRepeat}
    \cup {(<<"t", "a", "g">> :> Repeat(n)) @@ (<<"i", "n", "t", "s">> :> RepeatInts(n)) :
            n \in 1..MaxRepeat}
sliceBodies ==
    {NoBody, JSONBody(JObj(<< <<<<"t", "a", "g">>, JArr(<<JStr(<<"j">>)>>)>> >>))}
    \cup {JSONBody(JObj(<< <<<<"i", "n", "t", "s">>, JArr([i \in 1..n |-> JNum(6 + i)])>> >>)) :
            n \in 0..MaxElems}
sliceRequests ==
    {Request(IF b = NoBody THEN h ELSE WithContentType(ctJSON, h), b, f, q, p[1], p[2]) :
        h \in {NoValues, One(<<"T", "a", "g">>, <<"h">>)},
        b \in sliceBodies,
        f \in {NoValues, One(<<"t", "a", "g">>, <<"f">>)},
        q \in sliceQueries,
        p \in {<< <<>>, <<>> >>, << <<<<"t", "a", "g">>>>, <<<<"p">>>> >>}}

\* JSON bodies for the nested structs.
ElemLists == UNION {[1..n -> {0, 1}] : n \in 0..MaxElems}
nestedRequests ==
    {Request(WithContentType(ctJSON, NoValues),
             JSONBody(JObj(<<
                <<<<"n", "e", "s", "t", "e", "d">>, JObj(<< <<<<"s">>, JStr(sv)>> >>)>>,
                <<<<"s", "l", "i", "c", "e">>,
                  JArr([i \in 1..Len(es) |-> JObj(<< <<<<"I">>, JNum(es[i])>> >>)])>> >>)),
             NoValues, NoValues, <<>>, <<>>) :
        sv \in {<<>>, <<"a">>, <<"a", "b">>},
        es \in ElemLists}
twinRequests ==
    {Request(WithContentType(ctJSON, NoValues),
             JSONBody(JObj(<<
                <<<<"a">>, JObj(<< <<<<"a", "x">>, JNum(x)>> >>)>>,
                <<<<"b">>, JObj(<< <<<<"b", "x">>, JNum(y)>> >>)>> >>)),
             NoValues, NoValues, <<>>, <<>>) :
        x \in {0, 1}, y \in {0, 1}}

\* Requests against nestedParams that name, on the form, the query or the
\* route, the nested field s, the struct field nested, the field i of the
\* slice elements, or the slice itself.
nestedNames == {<<"s">>, <<"n", "e", "s", "t", "e", "d">>, <<"i">>,
                <<"s", "l", "i", "c", "e">>}
nestedClientRequests ==
    {Request(NoValues, NoBody, f, q, p[1], p[2]) :
        f \in {NoValues, One(<<"s">>, <<"a", "b">>)},
        q \in {NoValues} \cup {One(k, <<"1", "2">>) : k \in nestedNames},
        p \in {<< <<>>, <<>> >>, << <<<<"s">>>>, << <<"a", "b">> >> >>}}

\* Requests against defaultsParams: each field is supplied by the body, by
\* a query parameter, or by nothing at all.
defaultsBodies ==
    {NoBody, JSONBody(JObj(<<>>)),
     JSONBody(JObj(<< <<<<"s">>, JStr(<<"b">>)>>, <<<<"I">>, JNum(5)>> >>)),
     JSONBody(JObj(<< <<<<"A">>, JObj(<<>>)>> >>)),
     JSONBody(JObj(<< <<<<"A">>, JObj(<< <<<<"Z">>, JNum(3)>> >>)>> >>)),
     JSONBody(JObj(<< <<<<"A">>, JObj(<< <<<<"A", "A">>, JStr(<<"y">>)>> >>)>>,
                      <<<<"z">>, JNum(2)>> >>)),
     JSONBody(JObj(<< <<<<"A">>, JNum(1)>> >>))}
defaultsRequests ==
    {Request(IF b = NoBody THEN h ELSE WithContentType(ctJSON, h), b, NoValues, q, p[1], p[2]) :
        p \in {<< <<>>, <<>> >>, << <<<<"a">>>>, <<sAbc>> >>},
        h \in {NoValues, One(<<"X", "-", "U">>, <<"1">>), One(<<"Z">>, <<"9">>)},
        b \in defaultsBodies,
        q \in {NoValues, One(<<"s">>, <<"q">>), One(<<"p">>, <<"q">>), One(<<"z">>, <<"7">>),
               One(<<"I">>, <<"8">>), One(<<"A", "A">>, <<"q">>), One(<<"z">>, sAbc)}}

\* Requests against tagParams and shadowParams: every name a tag or a Go
\* field name could be taken for, on each channel.
tagNames ==
    {<<"s", "e", "t">>, <<"T", "h", "i", "s", "N", "a", "m", "e">>, <<"-">>,
     <<"I", "g", "n", "o", "r", "e">>, <<"B", "a", "r", "e">>,
     <<"h">>, <<"q">>, <<"f">>, <<"o">>, <<"x">>, <<"X">>}
tagValues(names) == [k \in names |-> << <<"1">> >>]
testQueryNames ==
    {<<"s", "e", "t">>, <<"T", "h", "i", "s", "N", "a", "m", "e">>, <<"-">>,
     <<"I", "g", "n", "o", "r", "e">>}
tagRequests ==
    {Request(h, NoBody, f, q, p[1], p[2]) :
        h \in {NoValues} \cup {tagValues({k}) : k \in {<<"h">>, <<"X">>}},
        f \in {NoValues, tagValues({<<"f">>, <<"B", "a", "r", "e">>})},
        q \in {NoValues, tagValues(testQueryNames)} \cup {tagValues({k}) : k \in tagNames},
        p \in {<< <<>>, <<>> >>}
              \cup {<< <<k>>, << <<"2">> >> >> : k \in {<<"o">>, <<"B", "a", "r", "e">>, <<"x">>, <<"X">>}}}

\* The calls of BindAndValidate the model explores:
\* <<struct type, request, how the struct was passed>>.
Calls ==
    {<<c[1], c[2], "pointer">> :
        c \in ({scalarParams} \X scalarRequests)
            \cup ({emptyHandlerParams, typedParams, formParams} \X mediaRequests)
            \cup ({sliceParams} \X sliceRequests)
            \cup ({nestedParams} \X (nestedRequests \cup nestedClientRequests))
            \cup ({twinParams} \X twinRequests)
            \cup ({defaultsParams, badDefaultParams, badNestedDefaultParams}
                  \X defaultsRequests)
            \cup ({tagParams, shadowParams} \X tagRequests)}

\* Calls whose params argument is not a pointer to a struct: a struct passed
\* by value, and a pointer to an int.
MisusedCalls ==
    ({badDefaultParams, defaultsParams} \X defaultsRequests \X {"value"})
    \cup ({TInt} \X defaultsRequests \X {"pointer"})

(***************************************************************************)
(* BindAndValidate as a state machine: one step per stage of BindFromAll,  *)
(* then Validate.                                                          *)
(***************************************************************************)
VARIABLES
    passed,      \* how paramsStructPtr was passed: "pointer" or "value"
    paramsType,  \* the type paramsStructPtr points to (or is, when passed by value)
    req,         \* the request the adapter returns
    ph,          \* the Handler: reflector indexes, parsers, defaulters
    hp,          \* the parameter struct
    pc,          \* the stage to run next, "done" once the call is over
    err,         \* what the call returns: nil, an HTTPError, or a panic
    applied,     \* the stages run so far
    decoded,     \* whether decodeJSON has been called
    valRule,     \* Registry.Validate: the rule of the field's validate tag
    valField,    \* the value of the validated field, with its type
    valNow,      \* what the registry's nowSource returns
    valErr,      \* the error reported for the field
    valPc,       \* "call" before the validation function ran, "done" after
    parTotal,    \* parallel.ForEach: the argument total
    parN,        \* the argument n, the degree of parallelism
    parMain,     \* where ForEach itself is: "call", "spawn", "wait", "done"
    parI,        \* the loop variable i of ForEach
    parWorker,   \* where the goroutine of each index is
    parSem,      \* how many values the channel semaphore buffers
    parWg,       \* the counter of the WaitGroup
    parErrs,     \* the slice errs
    parCalls,    \* how often process has been invoked, per index
    parRet,      \* what ForEach returns
    preCfg,      \* preflight: the Config given to MiddlewareWithConfig
    prePc,       \* where the handler is: "check", "sleep", "retry", "next", "done"
    preClock,    \* time.Now(), in milliseconds since the handler was entered
    preGiveUpAt, \* giveUpAt
    preRetryWait,\* retryWait, in milliseconds
    preChecks,   \* the results of the calls of cfg.Check so far, in order
    preSleeps,   \* the arguments of the calls of time.Sleep so far, in order
    preNextCalls,\* how often next has been invoked
    preRet,       \* what the handler returns
    rollT, \* kronos.RollMonth: the date of the argument t, <<year, month, day>>
    rollMonths, \* the argument months
    rollResult, \* the date of the time RollMonth returns
    rollPc, \* "call" before RollMonth ran, "done" after
    regDefaults, \* the package variable defaultCustomTypes
    regMaps, \* the maps made so far, by their identity: typeParsers and typeDefaulters of the Handlers
    regHandlers, \* the Handlers New has returned: the identities of their two maps
    regAtNew, \* what defaultCustomTypes held when each Handler was made
    regOwn, \* what was registered on each Handler with Handler.RegisterCustomType, in order
    regBound, \* the parameter struct of each Handler after setFromDefaults, with the outcome
    marEnabled, \* mb.enabledFast
    marInterval, \* mb.interval, 0 before Start set it
    marWriter, \* mb.writer
    marMutex, \* mb.mutex: 0 when free, else the goroutine that holds it
    marIndex, \* mb.goroutineIndex
    marActive, \* mb.activeGoroutines
    marRegistry, \* mb.goroutineRegistry: name -> set of ids
    marStarts, \* calls of Start so far
    marReporters, \* reporter goroutines started
    marPc, \* where each goroutine calling Yo is
    marName, \* the name each goroutine passed to Yo
    marId, \* thisId of each goroutine's callback, 0 for noop
    marIssued, \* the ids Yo has issued, in order
    marRepPc, \* where the reporter goroutine is
    marRepTodo, \* names the reporter's range has yet to visit
    marRepVisited, \* names the reporter's range has visited
    marRepSeen, \* activePerName as collected so far: <<name, id>> pairs
    marReport, \* the arguments of the call of mb.writer under way
    marFatal \* the runtime ended the process (concurrent map iteration and map write)

bindVars == <<passed, paramsType, req, ph, hp, pc, err, applied, decoded>>
valVars == <<valRule, valField, valNow, valErr, valPc>>
parVars == <<parTotal, parN, parMain, parI, parWorker, parSem, parWg, parErrs, parCalls, parRet>>
preVars == <<preCfg, prePc, preClock, preGiveUpAt, preRetryWait, preChecks, preSleeps,
             preNextCalls, preRet>>
rollVars == <<rollT, rollMonths, rollResult, rollPc>>
regVars == <<regDefaults, regMaps, regHandlers, regAtNew, regOwn, regBound>>
marVars == <<marEnabled, marInterval, marWriter, marMutex, marIndex, marActive, marRegistry, marStarts, marReporters, marPc, marName, marId, marIssued, marRepPc, marRepTodo, marRepVisited, marRepSeen, marReport, marFatal>>
vars == <<bindVars, valVars, parVars, preVars, rollVars, regVars, marVars>>
\* What a step of BindAndValidate leaves alone.
otherVars == <<valVars, parVars, preVars, rollVars, regVars, marVars>>

NoError == [kind |-> "nil", code |-> 0, messages |-> <<>>]
\* NewHTTPError: the text of a 400 or 415 is not modelled.
NewHTTPError(code) == [kind |-> "http", code |-> code, messages |-> <<>>]
Panicked == [kind |-> "panic", code |-> 0, messages |-> <<>>]

\* The Handler before New has filled it in.
NoHandler ==
    [paramFieldsByJsonName |-> EmptyMap, jsonNamesByFieldName |-> EmptyMap,
     typeParsers |-> EmptyMap, typeDefaulters |-> EmptyMap]

\* No validation call of the registry is under way.
ValIdle ==
    /\ valRule = [name |-> "none", param |-> <<>>]
    /\ valField = [type |-> TInt, val |-> 0]
    /\ valNow = ZeroTime
    /\ valErr = [isnil |-> TRUE]
    /\ valPc = "idle"

\* No call of parallel.ForEach is under way.
ParIdle ==
    /\ parTotal = 0
    /\ parN = 0
    /\ parMain = "idle"
    /\ parI = 0
    /\ parWorker = <<>>
    /\ parSem = 0
    /\ parWg = 0
    /\ parErrs = <<>>
    /\ parCalls = <<>>
    /\ parRet = [kind |-> "none", errors |-> <<>>]

\* No request is in the preflight middleware.
PreIdle ==
    /\ preCfg = [Check |-> "nil", MaxTotalWait |-> 0, MaxRetryWait |-> 0]
    /\ prePc = "idle"
    /\ preClock = 0
    /\ preGiveUpAt = 0
    /\ preRetryWait = 0
    /\ preChecks = <<>>
    /\ preSleeps = <<>>
    /\ preNextCalls = 0
    /\ preRet = "none"

\* No call of kronos.RollMonth is under way.
RollIdle ==
    /\ rollT = <<1, 1, 1>>
    /\ rollMonths = 0
    /\ rollResult = <<1, 1, 1>>
    /\ rollPc = "idle"

\* No Handler exists and the registry of custom types is as init left it.
RegIdle ==
    /\ regDefaults = defaultCustomTypes
    /\ regMaps = <<>>
    /\ regHandlers = <<>>
    /\ regAtNew = <<>>
    /\ regOwn = <<>>
    /\ regBound = <<>>

\* Nothing of mariobros runs: the instance is as newMariobros made it.
MarIdle ==
    /\ marEnabled = 0
    /\ marInterval = 0
    /\ marWriter = "nil"
    /\ marMutex = 0
    /\ marIndex = 0
    /\ marActive = 0
    /\ marRegistry = <<>>
    /\ marStarts = 0
    /\ marReporters = 0
    /\ marPc = <<>>
    /\ marName = <<>>
    /\ marId = <<>>
    /\ marIssued = <<>>
    /\ marRepPc = "off"
    /\ marRepTodo = {}
    /\ marRepVisited = {}
    /\ marRepSeen = {}
    /\ marReport = [taken |-> FALSE, total |-> 0, ids |-> {}]
    /\ marFatal = FALSE

\* No call of BindAndValidate is under way.
BindIdle ==
    /\ passed = "pointer"
    /\ paramsType = emptyHandlerParams
    /\ req = Request(NoValues, NoBody, NoValues, NoValues, <<>>, <<>>)
    /\ hp = Zero(emptyHandlerParams)
    /\ ph = NoHandler
    /\ pc = "idle"
    /\ err = NoError
    /\ applied = <<>>
    /\ decoded = FALSE

Init ==
    /\ ValIdle
    /\ ParIdle
    /\ PreIdle
    /\ MarIdle
    /\ RegIdle
    /\ RollIdle
    /\ \E c \in Calls \cup MisusedCalls :
        /\ paramsType = c[1]
        /\ req = c[2]
        /\ passed = c[3]
        /\ hp = Zero(c[1])
    /\ ph = NoHandler
    /\ pc = "new"
    /\ err = NoError
    /\ applied = <<>>
    /\ decoded = FALSE

\* BindFromAll: the stage that follows each stage; Validate follows the
\* last one in BindAndValidate.
StageOrder == <<"defaults", "headers", "json", "form", "query", "path", "validate">>
StageOrderPathFirst == <<"defaults", "headers", "json", "form", "path", "query", "validate">>
StageAfter(order, stage) == order[(CHOOSE i \in 1..Len(order) : order[i] = stage) + 1]
NextStagePathFirst(stage) == StageAfter(StageOrderPathFirst, stage)
NextStage(stage) == StageAfter(StageOrder, stage)

\* setFromJSONBody: the Content-Types whose body is decoded.
IsJSONContentTypeExact(ctype) == ctype = ctJSON
IsJSONContentTypeAny(ctype) == TRUE
IsJSONContentType(ctype) == HasPrefix(ctype, ctJSON)

\* The outcome of a stage that offered values through binder.setField.
Finish(stage, r, nextpc) ==
    /\ hp' = r.hp
    /\ applied' = Append(applied, stage)
    /\ IF r.r = "ok" THEN pc' = nextpc /\ err' = err
       ELSE /\ pc' = "done"
            /\ err' = IF r.r = "panic" THEN Panicked ELSE NewHTTPError(StatusBadRequest)
    /\ UNCHANGED <<passed, paramsType, req, ph, otherVars>>

\* New: newReflector takes Elem() of the argument's reflect.Value, which
\* panics unless the argument is a pointer, and parseStructTags asks the
\* pointee's type for NumField, which panics unless it is a struct.
NewHandler ==
    /\ pc = "new"
    /\ IF passed = "pointer" /\ paramsType.kind = "struct"
       THEN ph' = New(paramsType) /\ pc' = "defaults" /\ err' = err
       ELSE ph' = ph /\ pc' = "done" /\ err' = Panicked
    /\ UNCHANGED <<passed, paramsType, req, hp, applied, decoded, otherVars>>

SetFromDefaults ==
    /\ pc = "defaults"
    /\ LET r == setFromDefaults(ph, paramsType, hp) IN
       Finish("defaults", [r |-> r.r, hp |-> r.v], NextStage("defaults"))
    /\ UNCHANGED decoded

SetFromHeaders ==
    /\ pc = "headers"
    /\ \E o \in KeyOrders(req.Header) :
        Finish("headers",
               setAll(ph, paramsType, hp, LowerKeys(OffersOf(req.Header, o)), ParamSourceHeader),
               NextStage("headers"))
    /\ UNCHANGED decoded

\* req.Header.Get("Content-Type")
ContentTypeOf(r) ==
    IF hdrContentType \in DOMAIN r.Header THEN r.Header[hdrContentType][1] ELSE <<>>

SetFromJSONBody ==
    /\ pc = "json"
    /\ IF ContentLength(req) = 0
       THEN /\ Finish("json", [r |-> "ok", hp |-> hp], NextStage("json"))
            /\ UNCHANGED decoded
       ELSE IF IsJSONContentType(ContentTypeOf(req))
       THEN /\ Finish("json", decodeJSON(paramsType, hp, req.Body), NextStage("json"))
            /\ decoded' = TRUE
       ELSE /\ pc' = "done"
            /\ err' = NewHTTPError(StatusUnsupportedMediaType)
            /\ applied' = Append(applied, "json")
            /\ UNCHANGED <<passed, paramsType, req, ph, hp, decoded, otherVars>>

SetFromForm ==
    /\ pc = "form"
    /\ \E o \in KeyOrders(req.Form) :
        Finish("form",
               setAll(ph, paramsType, hp, OffersOf(req.Form, o), ParamSourceForm),
               NextStage("form"))
    /\ UNCHANGED decoded

SetFromQueryParams ==
    /\ pc = "query"
    /\ \E o \in KeyOrders(req.Query) :
        Finish("query",
               setAll(ph, paramsType, hp, OffersOf(req.Query, o), ParamSourceQuery),
               NextStage("query"))
    /\ UNCHANGED decoded

PathOffers(r) == [i \in 1..Len(r.routeParamKeys) |-> <<r.routeParamKeys[i], r.routeParamValues[i]>>]

SetFromPathParams ==
    /\ pc = "path"
    /\ Finish("path",
              setAll(ph, paramsType, hp, PathOffers(req), ParamSourcePath),
              NextStage("path"))
    /\ UNCHANGED decoded

\* Handler.Validate, reached only when BindFromAll returned nil.
Validate ==
    /\ pc = "validate"
    /\ LET entries == validateStruct(paramsType, hp, 1) IN
       IF Len(entries) = 0 THEN err' = err
       ELSE \E o \in IndexOrders(Len(entries)) :
                err' = [kind |-> "http", code |-> StatusUnprocessableEntity,
                        messages |-> formatErrors(ph, entries, o, 1)]
    /\ pc' = "done"
    /\ applied' = Append(applied, "validate")
    /\ UNCHANGED <<passed, paramsType, req, ph, hp, decoded, otherVars>>

Next ==
    \/ NewHandler
    \/ SetFromDefaults
    \/ SetFromHeaders
    \/ SetFromJSONBody
    \/ SetFromForm
    \/ SetFromQueryParams
    \/ SetFromPathParams
    \/ Validate

Spec == Init /\ [][Next]_vars

TypeOK ==
    /\ passed \in {"pointer", "value"}
    /\ pc \in {"idle", "new", "defaults", "headers", "json", "form", "query", "path", "validate", "done"}
    /\ err.kind \in {"nil", "http", "panic"}
    /\ decoded \in BOOLEAN

(***************************************************************************)
(* What a request supplies, read off the request and the struct tags       *)
(***************************************************************************)
Range(f) == {f[i] : i \in DOMAIN f}
Last(q) == q[Len(q)]
Ran(stage) == stage \in Range(applied)

\* BindFromAll has returned nil.
BindOK == pc = "validate" \/ (pc = "done" /\ Ran("validate"))

TopFields ==
    IF paramsType.kind = "struct"
    THEN {paramsType.fields[i] : i \in 1..Len(paramsType.fields)}
    ELSE {}
IsScalar(t) == t \in {TInt, TString, TBool, TTime}
ScalarOf(t, x) ==
    CASE t = TInt -> ParseInt(x)
      [] t = TBool -> ParseBool(x)
      [] t = TTime -> ParseTimeRFC3339(x)
      [] OTHER -> ParseOk(x)

DefaultValuesFor(fd) ==
    IF "default" \in DOMAIN fd.Tag /\ fd.Tag["default"] # <<>> THEN <<fd.Tag["default"]>> ELSE <<>>
HeaderValuesFor(name) ==
    IF \E k \in DOMAIN req.Header : ToLower(k) = name
    THEN req.Header[CHOOSE k \in DOMAIN req.Header : ToLower(k) = name]
    ELSE <<>>
ValuesFor(m, name) == IF name \in DOMAIN m THEN m[name] ELSE <<>>
PathValuesFor(name) ==
    LET hits == SelectSeq([i \in 1..Len(req.routeParamKeys) |-> i],
                          LAMBDA i : req.routeParamKeys[i] = name)
    IN [k \in 1..Len(hits) |-> req.routeParamValues[hits[k]]]

\* The values the named channel offers to a field of the given paramField.
ChannelValues(source, pf) ==
    IF ~(pf.Source = "json" \/ pf.Source = source) THEN <<>>
    ELSE CASE source = "header" -> HeaderValuesFor(pf.Name)
           [] source = "form" -> ValuesFor(req.Form, pf.Name)
           [] source = "query" -> ValuesFor(req.Query, pf.Name)
           [] source = "path" -> PathValuesFor(pf.Name)

\* The members of the body's JSON object whose key is the given name.
BodyMembersFor(name) ==
    IF req.Body.kind = "json" /\ req.Body.doc.j = "obj"
    THEN SelectSeq(req.Body.doc.o, LAMBDA m : m[1] = name)
    ELSE <<>>

SourceOfStage(stage) ==
    CASE stage = "headers" -> "header"
      [] stage = "form" -> "form"
      [] stage = "query" -> "query"
      [] stage = "path" -> "path"
      [] OTHER -> "none"
ParamStages == {"headers", "form", "query", "path"}

\* Whether some value of the stage targets a field it cannot be parsed into.
Unparsable(t, x) ==
    LET vt == IF t.kind = "ptr" THEN t.elem ELSE t
        et == IF vt.kind = "slice" THEN vt.elem ELSE vt
    IN et \in {TInt, TBool, TTime} /\ ~ScalarOf(et, x).ok
StageHasUnparsable(stage) ==
    \E fd \in TopFields :
        LET pf == parseToParamField(fd) IN
        /\ pf.found
        /\ \E x \in Range(ChannelValues(SourceOfStage(stage), pf)) : Unparsable(fd.Type, x)

(***************************************************************************)
(* Claims                                                                  *)
(***************************************************************************)

\* C1: the sources are applied in the order defaults, headers, JSON body,
\* form, query, path: once BindFromAll has returned nil, a scalar field
\* declared `json` holds the value of the last stage, in that order, that
\* supplied its wire name; a path parameter wins over a query parameter.
C1_LastStageWins ==
    BindOK =>
        \A fd \in TopFields :
            LET pf == parseToParamField(fd)
                late == ChannelValues("form", pf) \o ChannelValues("query", pf)
                        \o ChannelValues("path", pf)
                early == DefaultValuesFor(fd) \o ChannelValues("header", pf)
                body == BodyMembersFor(pf.Name)
            IN (pf.found /\ pf.Source = "json" /\ IsScalar(fd.Type)) =>
                IF Len(late) > 0 THEN hp[fd.Name] = ScalarOf(fd.Type, Last(late)).v
                ELSE IF Len(body) > 0 THEN
                    hp[fd.Name] = (IF fd.Type = TInt THEN Last(body)[2].n
                                   ELSE ScalarOf(fd.Type, Last(body)[2].s).v)
                ELSE IF Len(early) > 0 THEN hp[fd.Name] = ScalarOf(fd.Type, Last(early)).v
                ELSE TRUE

\* A call that supplied x in the body, in the query and in the path has
\* returned from BindFromAll with the path's value.
C1_Witness ==
    /\ BindOK
    /\ paramsType = scalarParams
    /\ Len(BodyMembersFor(<<"x">>)) > 0
    /\ ValuesFor(req.Query, <<"x">>) = <<<<"5">>>>
    /\ PathValuesFor(<<"x">>) = <<<<"6">>>>
    /\ hp[<<"X">>] = 6

\* C2: a scalar field declared with a specific source (path, query, header
\* or form) is set from that channel only: it always holds its zero value,
\* its default, or a value its own channel offered under its wire name.
C2_OwnChannelOnly ==
    \A fd \in TopFields :
        LET pf == parseToParamField(fd) IN
        (pf.found /\ pf.Source # "json" /\ IsScalar(fd.Type)) =>
            \/ hp[fd.Name] = Zero(fd.Type)
            \/ \E x \in Range(DefaultValuesFor(fd) \o ChannelValues(pf.Source, pf)) :
                  ScalarOf(fd.Type, x).ok /\ hp[fd.Name] = ScalarOf(fd.Type, x).v

\* C3 as stated: a non-empty body with Content-Type application/xml ends
\* the call with a 415 whatever the struct.
C3_Always415 ==
    (pc = "done" /\ ContentLength(req) # 0 /\ ContentTypeOf(req) = ctXML) =>
        (err.kind = "http" /\ err.code = StatusUnsupportedMediaType)

\* C3, amended: a non-empty body with Content-Type application/xml ends the
\* call with a 415 whenever the body stage is reached, which is unless the
\* header stage before it has already failed.
C3_415WhenBodyStageReached ==
    (Ran("json") /\ ContentLength(req) # 0 /\ ContentTypeOf(req) = ctXML) =>
        /\ err.kind = "http" /\ err.code = StatusUnsupportedMediaType
        /\ pc = "done" /\ Last(applied) = "json" /\ ~decoded

C3_Witness ==
    /\ paramsType = emptyHandlerParams
    /\ req.Body = JSONBody(JObj(<<>>))
    /\ ContentTypeOf(req) = ctXML
    /\ pc = "done"
    /\ err.code = StatusUnsupportedMediaType

\* C4: when a header, form, query or path value does not parse into the
\* int, bool or time its field holds, the stage that offered it ends the
\* call with a 400: no later stage runs and validation is not run.
C4_UnparsableIs400 ==
    \A stage \in ParamStages :
        (Ran(stage) /\ StageHasUnparsable(stage)) =>
            /\ pc = "done"
            /\ err = NewHTTPError(StatusBadRequest)
            /\ Last(applied) = stage

\* A query value failed to parse while a validation rule (min=1 on N) was
\* failing too.
C4_Witness ==
    /\ paramsType = scalarParams
    /\ Ran("query") /\ StageHasUnparsable("query")
    /\ hp[<<"N">>] = 0
    /\ pc = "done"

\* The violations of the bound struct with the paths the claims describe:
\* <<wire path, message>>, every name segment the wire name declared on the
\* field itself, every index segment the element's index.
RECURSIVE WireViolations(_, _, _)
RECURSIVE WireElemViolations(_, _, _, _)
WireViolations(t, v, i) ==
    IF i > Len(t.fields) THEN <<>>
    ELSE LET fd == t.fields[i]
             wire == parseToParamField(fd).Name
             f == v[fd.Name]
             errs == FailedRules(fd.Validate, fd.Type, f, 1)
             own == [k \in 1..Len(errs) |-> <<wire, errs[k]>>]
             deep == IF fd.Type.kind = "struct" /\ fd.Type # TTime
                     THEN Prefixed(wire \o <<".">>, WireViolations(fd.Type, f, 1))
                     ELSE IF fd.Type.kind = "slice" /\ fd.Type.elem.kind = "struct"
                     THEN WireElemViolations(wire, fd.Type.elem, f.elems, 1)
                     ELSE <<>>
         IN own \o deep \o WireViolations(t, v, i + 1)
WireElemViolations(wire, et, elems, k) ==
    IF k > Len(elems) THEN <<>>
    ELSE Prefixed(wire \o <<"[">> \o Itoa(k - 1) \o <<"]", ".">>,
                  WireViolations(et, elems[k], 1))
         \o WireElemViolations(wire, et, elems, k + 1)
WireLines(t, v) ==
    LET vs == WireViolations(t, v, 1) IN
    [k \in 1..Len(vs) |-> vs[k][1] \o <<":", " ">> \o vs[k][2]]

Validated == pc = "done" /\ Ran("validate")

\* C5: when binding succeeds and rules fail, the call returns 422 with
\* exactly one message `<path>: <violation>` per violated (field, rule),
\* <path> built from the wire names of the fields on the way and the
\* indexes of the invalid slice elements; without violations it returns nil.
C5_OneMessagePerViolation ==
    Validated =>
        LET lines == WireLines(paramsType, hp) IN
        IF Len(lines) = 0 THEN err = NoError
        ELSE /\ err.kind = "http" /\ err.code = StatusUnprocessableEntity
             /\ Len(err.messages) = Len(lines)
             /\ Range(err.messages) = Range(lines)

\* C6: every name segment of a reported path is the wire name declared on
\* the failing field itself: each message of a 422 starts with the wire
\* path of a field that violates a rule.
C6_ExactWireNames ==
    (Validated /\ err.kind = "http") =>
        \A m \in Range(err.messages) :
            \E v \in Range(WireViolations(paramsType, hp, 1)) :
                HasPrefix(m, v[1] \o <<":", " ">>)

\* The elements a slice field holds after the stages named in `sources`
\* have offered their values, in stage order.
RECURSIVE OfferedFrom(_, _, _)
OfferedFrom(sources, pf, i) ==
    IF i > Len(sources) THEN <<>>
    ELSE ChannelValues(sources[i], pf) \o OfferedFrom(sources, pf, i + 1)
ElemType(t) == IF t.kind = "ptr" THEN t.elem.elem ELSE t.elem
IsParamSlice(t) ==
    \/ t \in {typeOfStringSlice, typeOfIntSlice}
    \/ t \in {TPtr(typeOfStringSlice), TPtr(typeOfIntSlice)}
ElemsOf(t, v) ==
    IF t.kind = "ptr" THEN (IF v.isnil THEN <<>> ELSE v.elem.elems) ELSE v.elems
ParsedElems(t, xs) == [k \in 1..Len(xs) |-> ScalarOf(ElemType(t), xs[k]).v]
BodyElems(t, doc) ==
    [k \in 1..Len(doc.a) |-> IF ElemType(t) = TInt THEN doc.a[k].n ELSE doc.a[k].s]

\* C7: every value offered to a []string or []int field (or a pointer to
\* one) appends one parsed element: once BindFromAll has returned nil the
\* field holds the elements set by the earlier stages followed by the
\* values of the later stages, in the order offered.
C7_SlicesAccumulate ==
    BindOK =>
        \A fd \in TopFields :
            LET pf == parseToParamField(fd)
                body == BodyMembersFor(pf.Name)
                early == ParsedElems(fd.Type,
                            DefaultValuesFor(fd) \o ChannelValues("header", pf))
                late == ParsedElems(fd.Type, OfferedFrom(<<"form", "query", "path">>, pf, 1))
            IN (pf.found /\ IsParamSlice(fd.Type)) =>
                ElemsOf(fd.Type, hp[fd.Name]) =
                    (IF Len(body) > 0 THEN BodyElems(fd.Type, Last(body)[2]) ELSE early) \o late

\* tag=c&tag=a&tag=b after a form value, followed by a path value.
C7_Witness ==
    /\ BindOK
    /\ paramsType = sliceParams
    /\ ValuesFor(req.Query, <<"t", "a", "g">>) = <<<<"c">>, <<"a">>, <<"b">>>>
    /\ hp[<<"T", "a", "g">>].elems = <<<<"f">>, <<"c">>, <<"a">>, <<"b">>, <<"p">>>>

\* The query with every key[] renamed to key.
IsArrayKey(k) == Len(k) > 2 /\ k[Len(k) - 1] = "[" /\ k[Len(k)] = "]"
PlainKey(k) == IF IsArrayKey(k) THEN SubSeq(k, 1, Len(k) - 2) ELSE k
PlainQuery(q) ==
    [k \in {PlainKey(x) : x \in DOMAIN q} |-> q[CHOOSE x \in DOMAIN q : PlainKey(x) = k]]

\* C8: query keys written key[]=value are bound as repeated plain keys
\* are: the query stage leaves the struct as it would for the same query
\* with every key[] written key.
C8_ArrayKeysBindLikePlainKeys ==
    [][(pc = "query" /\ \E k \in DOMAIN req.Query : IsArrayKey(k)) =>
        \E o \in KeyOrders(PlainQuery(req.Query)) :
            hp' = setAll(ph, paramsType, hp, OffersOf(PlainQuery(req.Query), o),
                         ParamSourceQuery).hp]_vars

\* C9: a POST with a non-empty application/x-www-form-urlencoded body
\* binds without error, and the fields tagged form:"formTag" and
\* json:"jsonTag" receive their form values.
C9_FormBodyBinds ==
    (/\ pc = "done"
     /\ paramsType = formParams
     /\ req.Body = TextBody
     /\ ContentTypeOf(req) = ctForm
     /\ req.Form = formValues
     /\ req.Query = NoValues) =>
        /\ err = NoError
        /\ hp[<<"F", "o", "r", "m", "T", "a", "g">>] = 123
        /\ hp[<<"J", "S", "O", "N", "T", "a", "g">>] = 456

StartsWithApplicationJSON(ct) == Len(ct) >= Len(ctJSON) /\ SubSeq(ct, 1, Len(ctJSON)) = ctJSON
RECURSIVE LeafPaths(_)
LeafPaths(t) ==
    UNION {LET fd == t.fields[i] IN
           IF fd.Type.kind = "struct" /\ fd.Type # TTime
           THEN {<<fd.Name>> \o p : p \in LeafPaths(fd.Type)}
           ELSE {<<fd.Name>>} : i \in 1..Len(t.fields)}

RECURSIVE FieldDefAt(_, _)
FieldDefAt(t, path) ==
    IF Len(path) = 1 THEN FieldDefByName(t, Head(path))
    ELSE FieldDefAt(FieldDefByName(t, Head(path)).Type, Tail(path))

\* The JSON document names the field at path, member by member.
RECURSIVE BodySupplies(_, _, _)
BodySupplies(t, doc, path) ==
    /\ doc.j = "obj"
    /\ \E k \in 1..Len(doc.o) :
        LET fs == jsonFields(t)
            f == jsonFieldFor(fs, doc.o[k][1])
        IN /\ f # 0
           /\ fs[f][2] = <<Head(path)>>
           /\ \/ Len(path) = 1
              \/ BodySupplies(FieldDefByName(t, Head(path)).Type, doc.o[k][2], Tail(path))

\* Some channel of the request carries a value for the field at path.
Supplied(path) ==
    \/ /\ req.Body.kind = "json"
       /\ BodySupplies(paramsType, req.Body.doc, path)
    \/ LET pf == parseToParamField(FieldDefAt(paramsType, path)) IN
       /\ pf.found
       /\ \E source \in {"header", "form", "query", "path"} : ChannelValues(source, pf) # <<>>

\* The value a `default` text stands for in a field of type t.
RECURSIVE DefaultOf(_, _)
DefaultOf(t, text) ==
    CASE t.kind = "ptr" -> PtrTo(DefaultOf(t.elem, text))
      [] t.kind = "slice" -> MakeSlice(<<DefaultOf(t.elem, text)>>)
      [] OTHER -> ScalarOf(t, text).v

Unsupplied(fd) ==
    IF DefaultValuesFor(fd) # <<>> THEN DefaultOf(fd.Type, fd.Tag["default"]) ELSE Zero(fd.Type)

\* The request supplies no field at all: its body, if any, is a JSON object
\* declared as JSON none of whose keys names a field.
NothingSupplied ==
    /\ \A path \in LeafPaths(paramsType) : ~Supplied(path)
    /\ \/ req.Body.kind = "empty"
       \/ /\ req.Body.kind = "json"
          /\ req.Body.doc.j = "obj"
          /\ \A k \in 1..Len(req.Body.doc.o) :
                jsonFieldFor(jsonFields(paramsType), req.Body.doc.o[k][1]) = 0
          /\ StartsWithApplicationJSON(ContentTypeOf(req))

\* C11: after a successful BindFromAll every field, at any depth of nested
\* non-pointer structs, that no channel supplied holds its parsed default
\* (a pointer field points to it) or, without a default, its zero value;
\* a request that supplies nothing never fails to bind (a call that
\* panics returns nothing).
C11_DefaultOrZeroWhenAbsent ==
    /\ BindOK =>
        \A path \in LeafPaths(paramsType) :
            ~Supplied(path) => GetAt(hp, path) = Unsupplied(FieldDefAt(paramsType, path))
    /\ (pc = "done" /\ err # Panicked /\ NothingSupplied) => Ran("validate")

C11_Witness ==
    /\ pc = "done" /\ Ran("validate")
    /\ paramsType = defaultsParams
    /\ Supplied(<<<<"A">>, <<"Z">>>>) /\ ~Supplied(<<<<"A">>, <<"A", "A">>>>)
    /\ ~Supplied(<<<<"I">>>>) /\ ~Supplied(<<<<"Z">>>>) /\ Supplied(<<<<"S">>>>)
    /\ hp[<<"A">>][<<"A", "A">>] = <<"e", "g", "g", "s">>
    /\ hp[<<"A">>][<<"B">>] = TRUE
    /\ hp[<<"I">>] = PtrTo(10)
    /\ hp[<<"P">>] = PtrTo(sAbc)
    /\ hp[<<"Z">>] = 0

\* The wire names of struct type t: the names its fields declare in a
\* source tag, those of tagged nested structs and slices of structs and of
\* embedded structs included.
RECURSIVE WireNames(_)
WireNames(t) ==
    UNION {LET fd == t.fields[i]
               pf == parseToParamField(fd)
               inner == IF fd.Type.kind = "struct" THEN fd.Type
                        ELSE IF fd.Type.kind = "slice" /\ fd.Type.elem.kind = "struct"
                        THEN fd.Type.elem ELSE TStruct("", <<>>)
           IN (IF pf.found THEN {pf.Name} \cup WireNames(inner) ELSE {})
              \cup (IF fd.Anonymous THEN WireNames(fd.Type) ELSE {})
           : i \in 1..Len(t.fields)}

\* The parameter names the stage about to run offers.
StageNames(stage) ==
    CASE stage = "headers" -> {ToLower(k) : k \in DOMAIN req.Header}
      [] stage = "form" -> DOMAIN req.Form
      [] stage = "query" -> DOMAIN req.Query
      [] stage = "path" -> Range(req.routeParamKeys)
      [] OTHER -> {}

\* The parameters of the stage without those that match no wire name.
MatchedOffers(stage, keyOrder) ==
    LET all == CASE stage = "headers" -> LowerKeys(OffersOf(req.Header, keyOrder))
                 [] stage = "form" -> OffersOf(req.Form, keyOrder)
                 [] stage = "query" -> OffersOf(req.Query, keyOrder)
                 [] stage = "path" -> PathOffers(req)
    IN SelectSeq(all, LAMBDA o : o[1] \in WireNames(paramsType))
StageMap(stage) ==
    CASE stage = "headers" -> req.Header
      [] stage = "form" -> req.Form
      [] stage = "query" -> req.Query
      [] OTHER -> EmptyMap

\* What a step of a parameter stage does with unmatched parameters.
UnmatchedIgnoredStep ==
    pc \in ParamStages =>
        /\ (StageNames(pc) \cap WireNames(paramsType) = {}) =>
                hp' = hp /\ err' = err /\ pc' = NextStage(pc)
        /\ \E o \in KeyOrders(StageMap(pc)) :
            LET r == setAll(ph, paramsType, hp, MatchedOffers(pc, o), SourceOfStage(pc)) IN
            /\ hp' = r.hp
            /\ (r.r = "ok") = (err' = err /\ pc' = NextStage(pc))

\* C12: a header, form, query or path parameter whose name (lower-cased for
\* a header) matches no wire name of the struct is ignored.  A stage all of
\* whose parameters are unmatched leaves the struct and the error as they
\* were and hands over to the next stage; in general a stage ends as it
\* would without its unmatched parameters.
C12_UnmatchedIgnored == [][UnmatchedIgnoredStep]_vars

C12_Witness ==
    /\ pc = "done" /\ Ran("validate") /\ err = NoError
    /\ paramsType = defaultsParams
    /\ <<"X", "-", "U">> \in DOMAIN req.Header
    /\ <<"I">> \in DOMAIN req.Query
    /\ <<"a">> \in Range(req.routeParamKeys)
    /\ req.Body = NoBody
    /\ hp = [Zero(defaultsParams) EXCEPT
                ![<<"S">>] = <<"h", "i">>, ![<<"I">>] = PtrTo(10), ![<<"P">>] = PtrTo(sAbc),
                ![<<"L">>] = MakeSlice(<<4>>),
                ![<<"A">>] = [@ EXCEPT ![<<"A", "A">>] = <<"e", "g", "g", "s">>, ![<<"B">>] = TRUE]]

\* Some `default` tag of t, at any depth of nested structs, does not parse
\* into its field's type.
HasInvalidDefault(t) ==
    \E path \in LeafPaths(t) :
        LET fd == FieldDefAt(t, path) IN
        DefaultValuesFor(fd) # <<>> /\ Unparsable(fd.Type, fd.Tag["default"])

PointerToStruct == passed = "pointer" /\ paramsType.kind = "struct"

C13_WitnessNotPointer ==
    /\ pc = "done" /\ err = Panicked
    /\ paramsType = defaultsParams
    /\ passed = "value"

\* The tag the field is read by: the first of json, form, path, query and
\* header that the field carries with a text other than "-"; <<>> if none.
HonoredTag(fd) ==
    LET order == <<"json", "form", "path", "query", "header">>
        usable == SelectSeq(order, LAMBDA src : src \in DOMAIN fd.Tag /\ fd.Tag[src] # <<"-">>)
    IN IF Len(usable) = 0 THEN <<>> ELSE <<Head(usable)>>

\* The text of a tag before its first comma, and whether it has a comma.
HasComma(tag) == \E i \in 1..Len(tag) : tag[i] = ","
BeforeComma(tag) ==
    IF HasComma(tag)
    THEN SubSeq(tag, 1, (CHOOSE i \in 1..Len(tag) :
                            tag[i] = "," /\ \A k \in 1..(i - 1) : tag[k] # ",") - 1)
    ELSE tag
WireNameOf(fd) ==
    LET tag == fd.Tag[HonoredTag(fd)[1]] IN
    IF BeforeComma(tag) = <<>> /\ HasComma(tag) THEN fd.Name ELSE BeforeComma(tag)

\* What the step of a parameter stage may do to the fields without a tag.
UntaggedUntouchedStep ==
    /\ pc \notin {"new", "done"} =>
        \A fd \in TopFields :
            IF HonoredTag(fd) = <<>>
            THEN /\ ~parseToParamField(fd).found
                 /\ \A n \in DOMAIN ph.paramFieldsByJsonName :
                        ph.paramFieldsByJsonName[n].StructField # fd
            ELSE /\ parseToParamField(fd) =
                        [found |-> TRUE, Name |-> WireNameOf(fd),
                         Source |-> HonoredTag(fd)[1], StructField |-> fd]
                 /\ WireNameOf(fd) \in DOMAIN ph.paramFieldsByJsonName
    /\ pc \in ParamStages =>
        \A fd \in TopFields : HonoredTag(fd) = <<>> => hp'[fd.Name] = hp[fd.Name]

\* C14: parseToParamField honors at most one source tag per field, the
\* first of json, form, path, query, header that is present and not "-";
\* the wire name is the text before the first comma, or the Go field name
\* when that text is empty and a comma is present; a field without such a
\* tag has no entry in the wire-name index and no header, form, query or
\* path stage changes it.
C14_OneHonoredTag == [][UntaggedUntouchedStep]_vars

\* The index part of C14 alone: the entries of parseToParamField.
C14_IndexEntries ==
    pc \notin {"new", "done"} =>
        \A fd \in TopFields :
            IF HonoredTag(fd) = <<>>
            THEN /\ ~parseToParamField(fd).found
                 /\ \A n \in DOMAIN ph.paramFieldsByJsonName :
                        ph.paramFieldsByJsonName[n].StructField # fd
            ELSE /\ parseToParamField(fd) =
                        [found |-> TRUE, Name |-> WireNameOf(fd),
                         Source |-> HonoredTag(fd)[1], StructField |-> fd]
                 /\ WireNameOf(fd) \in DOMAIN ph.paramFieldsByJsonName

C14_Witness ==
    /\ pc = "done" /\ err = NoError
    /\ paramsType = tagParams
    /\ DOMAIN req.Query = testQueryNames
    /\ hp[<<"S", "e", "t">>] = <<"1">>
    /\ hp[<<"T", "h", "i", "s", "N", "a", "m", "e">>] = <<"1">>
    /\ hp[<<"D", "a", "s", "h">>] = <<"1">>
    /\ hp[<<"I", "g", "n", "o", "r", "e">>] = <<>>
    /\ hp[<<"B", "a", "r", "e">>] = <<>>

(***************************************************************************)
(* validator: the validation functions the Registry adds to go-validator.  *)
(* A validated value is [type, val]; an error is [isnil |-> TRUE] for nil  *)
(* and [isnil |-> FALSE, msg] otherwise.                                   *)
(***************************************************************************)
optional == <<"o", "p", "t">>
sepPipe == <<"|">>

NilError == [isnil |-> TRUE]
\* newError(s): a validator.TextErr with the text s.
newError(msg) == [isnil |-> FALSE, msg |-> msg]
\* validator.ErrBadParameter and validator.ErrUnsupported of go-validator.
ErrBadParameter == newError(<<"b", "a", "d", " ", "p", "a", "r", "a", "m", "e", "t", "e", "r">>)
ErrUnsupported == newError(<<"u", "n", "s", "u", "p", "p", "o", "r", "t", "e", "d", " ", "t", "y", "p", "e">>)

\* strings.Join
RECURSIVE Join(_, _)
Join(elems, sep) ==
    IF Len(elems) = 0 THEN <<>>
    ELSE IF Len(elems) = 1 THEN elems[1]
    ELSE elems[1] \o sep \o Join(Tail(elems), sep)

\* splitOptionalVal: [params, optional, err]
splitOptionalVal(param) ==
    LET params == Split(param, "|")
        isOpt == Len(params) > 0 /\ params[Len(params)] = optional
        rest == IF isOpt THEN SubSeq(params, 1, Len(params) - 1) ELSE params
    IN IF Len(params) = 0 \/ Len(rest) = 0
       THEN [params |-> <<>>, optional |-> FALSE, err |-> ErrBadParameter]
       ELSE [params |-> rest, optional |-> isOpt, err |-> NilError]

\* A mapper is strings.ToLower ("lower") or nil ("none").
ApplyMapper(mapper, x) == IF mapper = "lower" THEN ToLower(x) ELSE x
\* stringutil.Map and stringutil.Contains
Map(in, mapper) == [i \in 1..Len(in) |-> ApplyMapper(mapper, in[i])]
Contains(in, element) == \E i \in 1..Len(in) : in[i] = element

validateEnumImplStr(x, choices, isOpt) ==
    IF x = <<>> THEN (IF isOpt THEN NilError ELSE newError(<<"e", "m", "p", "t", "y", " ", "s", "t", "r", "i", "n", "g">>))
    ELSE IF \E i \in 1..Len(choices) : choices[i] = x THEN NilError
    ELSE newError(<<"i", "s", " ", "n", "o", "t", " ", "o", "n", "e", " ", "o", "f", " ">> \o Join(choices, sepPipe))

validateEnumImplSliceLax(ss, choices) == NilError
validateEnumImplSlice(ss, choices) ==
    IF \E i \in 1..Len(ss) : ~Contains(choices, ss[i])
    THEN newError(<<"e", "l", "e", "m", "e", "n", "t", " ", "n", "o", "t", " ", "o", "n", "e", " ", "o", "f", " ">> \o Join(choices, sepPipe))
    ELSE NilError

validateEnumImpl(v, param, mapper) ==
    LET sp == splitOptionalVal(param)
        choices == Map(sp.params, mapper)
    IN IF ~sp.err.isnil THEN sp.err
       ELSE IF v.type = TString
            THEN validateEnumImplStr(ApplyMapper(mapper, v.val), choices, sp.optional)
       ELSE IF v.type = TPtr(TString) /\ v.val.isnil THEN NilError
       ELSE IF v.type = TSlice(TString)
            THEN IF sp.optional THEN ErrBadParameter
                 ELSE validateEnumImplSlice(Map(v.val.elems, mapper), choices)
       ELSE IF v.type = TPtr(TSlice(TString)) /\ v.val.isnil THEN NilError
       ELSE ErrUnsupported

validateEnumExactly(v, param) == validateEnumImpl(v, param, "none")
validateCaseInsensitiveEnum(v, param) == validateEnumImpl(v, param, "lower")
validateCaseSensitiveEnum(v, param) == validateEnumImpl(v, param, "none")

\* time.Time.Before on the times of this model, field by field.
RECURSIVE TupleBefore(_, _, _)
TupleBefore(a, b, i) ==
    IF i > Len(a) THEN FALSE
    ELSE IF a[i] # b[i] THEN a[i] < b[i]
    ELSE TupleBefore(a, b, i + 1)
\* kronos.Compare
CompareReversed(t1, t2) ==
    IF t1 = t2 THEN 0
    ELSE IF TupleBefore(t2.t, t1.t, 1) THEN 0 - 1
    ELSE 1
Compare(t1, t2) ==
    IF t1 = t2 THEN 0
    ELSE IF TupleBefore(t1.t, t2.t, 1) THEN 0 - 1
    ELSE 1
IsZero(t) == t = ZeroTime

\* The function makeValidateCompareNow(getNow) returns, getNow() being now.
validateCompareNow(now, v, param) ==
    IF v.type # TTime
    THEN (IF v.type = TPtr(TTime) /\ v.val.isnil THEN NilError ELSE ErrUnsupported)
    ELSE LET sp == splitOptionalVal(param) IN
         IF ~sp.err.isnil THEN sp.err
         ELSE IF Len(sp.params) < 1 THEN ErrBadParameter
         ELSE LET c == Compare(v.val, now)
                  rel == sp.params[1]
                  msg == CASE rel = <<"g", "t", "e">> -> (IF c < 0 THEN <<"b", "e", "f", "o", "r", "e">> ELSE <<>>)
                           [] rel = <<"g", "t">> -> (IF c <= 0 THEN <<"b", "e", "f", "o", "r", "e", " ", "o", "r", " ", "a", "t">> ELSE <<>>)
                           [] rel = <<"l", "t", "e">> -> (IF c > 0 THEN <<"a", "f", "t", "e", "r">> ELSE <<>>)
                           [] rel = <<"l", "t">> -> (IF c >= 0 THEN <<"a", "f", "t", "e", "r", " ", "o", "r", " ", "a", "t">> ELSE <<>>)
                           [] OTHER -> <<>>
              IN IF rel \notin {<<"g", "t", "e">>, <<"g", "t">>, <<"l", "t", "e">>, <<"l", "t">>} THEN ErrBadParameter
                 ELSE IF msg = <<>> THEN NilError
                 ELSE IF sp.optional /\ IsZero(v.val) THEN NilError
                 ELSE newError(msg \o <<" ", "n", "o", "w">>)

\* go-validator hands a validation function the pointee of a non-nil
\* pointer field, and the field itself otherwise.
Coalesce(v) ==
    IF v.type.kind = "ptr" /\ ~v.val.isnil THEN [type |-> v.type.elem, val |-> v.val.elem]
    ELSE v

(***************************************************************************)
(* Registry.Validate of a struct with one field, as a state machine: the   *)
(* field's rule and value are chosen at the start, one step runs the       *)
(* validation function registered under the rule's name.                   *)
(***************************************************************************)
\* How many pipe-separated items a rule's parameter may have.
MaxItems == 3
\* How many elements a validated string slice may have.
MaxSliceLen == 2

ItemLists(items) == UNION {[1..n -> items] : n \in 1..MaxItems}
enumItems == {<<"a">>, <<"B">>, optional, <<>>}
enumParams == {Join(items, sepPipe) : items \in ItemLists(enumItems)}
enumStrings == {<<>>, <<"a">>, <<"A">>, <<"b">>, <<"B">>, optional, <<"d">>}
enumElems == {<<>>, <<"a">>, <<"b">>, <<"B">>, <<"d">>}
enumSlices == UNION {[1..n -> enumElems] : n \in 0..MaxSliceLen}

cmpItems == {<<"g", "t", "e">>, <<"g", "t">>, <<"l", "t", "e">>, <<"l", "t">>, optional, <<"h", "o", "u", "r">>, <<"d", "a", "y">>}
cmpParams == {Join(items, sepPipe) : items \in ItemLists(cmpItems)}
\* now := time.Date(2012, 11, 22, 6, 38, 12, ...), 50 hours before and
\* after it, and an earlier hour of the same day.
testNow == [t |-> <<2012, 11, 22, 6, 38, 12>>]
earlierDay == [t |-> <<2012, 11, 20, 4, 38, 12>>]
laterDay == [t |-> <<2012, 11, 24, 8, 38, 12>>]
earlierToday == [t |-> <<2012, 11, 22, 3, 0, 0>>]
cmpTimes == {ZeroTime, earlierDay, earlierToday, testNow, laterDay}

ValInit ==
    /\ BindIdle
    /\ ParIdle
    /\ PreIdle
    /\ MarIdle
    /\ RegIdle
    /\ RollIdle
    /\ valPc = "call"
    /\ valErr = NilError
    /\ valNow = testNow
    /\ \/ /\ \E name \in {"enum", "cenum"}, param \in enumParams :
                valRule = [name |-> name, param |-> param]
          /\ \/ \E x \in enumStrings :
                    \/ valField = [type |-> TString, val |-> x]
                    \/ valField = [type |-> TPtr(TString), val |-> PtrTo(x)]
             \/ \E es \in enumSlices :
                    \/ valField = [type |-> TSlice(TString), val |-> MakeSlice(es)]
                    \/ valField = [type |-> TPtr(TSlice(TString)), val |-> PtrTo(MakeSlice(es))]
             \/ valField = [type |-> TSlice(TString), val |-> NilSlice]
             \/ valField = [type |-> TPtr(TString), val |-> NilPtr]
             \/ valField = [type |-> TPtr(TSlice(TString)), val |-> NilPtr]
             \/ valField = [type |-> TInt, val |-> 1]
       \/ /\ \E param \in cmpParams : valRule = [name |-> "comparenow", param |-> param]
          /\ \/ \E t \in cmpTimes :
                    \/ valField = [type |-> TTime, val |-> t]
                    \/ valField = [type |-> TPtr(TTime), val |-> PtrTo(t)]
             \/ valField = [type |-> TPtr(TTime), val |-> NilPtr]
             \/ valField = [type |-> TString, val |-> timeGood]

\* v.SetValidationFunc("enum", ...) and ("cenum", ...)
ValidateEnum ==
    /\ valPc = "call"
    /\ valRule.name \in {"enum", "cenum"}
    /\ valErr' = IF valRule.name = "enum"
                 THEN validateCaseInsensitiveEnum(Coalesce(valField), valRule.param)
                 ELSE validateCaseSensitiveEnum(Coalesce(valField), valRule.param)
    /\ valPc' = "done"
    /\ UNCHANGED <<valRule, valField, valNow, bindVars, parVars, preVars, marVars, regVars, rollVars>>

\* v.SetValidationFunc("comparenow", makeValidateCompareNow(getNow))
ValidateCompareNow ==
    /\ valPc = "call"
    /\ valRule.name = "comparenow"
    /\ valErr' = validateCompareNow(valNow, Coalesce(valField), valRule.param)
    /\ valPc' = "done"
    /\ UNCHANGED <<valRule, valField, valNow, bindVars, parVars, preVars, marVars, regVars, rollVars>>

ValNext ==
    \/ ValidateEnum
    \/ ValidateCompareNow

ValSpec == ValInit /\ [][ValNext]_vars

\* What the rule and the field of a finished validation say.
RuleItems == Split(valRule.param, "|")
TrailingOpt == Last(RuleItems) = optional
\* The choices as the rule lists them: its items, a trailing `opt` apart.
RuleChoices == IF TrailingOpt THEN SubSeq(RuleItems, 1, Len(RuleItems) - 1) ELSE RuleItems
SameChoice(x, c) == IF valRule.name = "enum" THEN ToLower(x) = ToLower(c) ELSE x = c
IsChoice(x) == \E i \in 1..Len(RuleChoices) : SameChoice(x, RuleChoices[i])
EnumDone == valPc = "done" /\ valRule.name \in {"enum", "cenum"}
FieldIs(type) == Coalesce(valField).type = type

SliceElems == Coalesce(valField).val.elems

\* C15 as stated: `enum`/`cenum` on a []string without a trailing `opt` is
\* valid iff every element is one of the choices, so the empty slice is
\* valid and an empty-string element is invalid; with a trailing `opt` the
\* result is the `bad parameter` error for every slice.
C15_SliceEnumEmptyElementInvalid ==
    (EnumDone /\ FieldIs(TSlice(TString))) =>
        IF TrailingOpt THEN valErr = ErrBadParameter
        ELSE /\ valErr.isnil = (\A i \in 1..Len(SliceElems) : IsChoice(SliceElems[i]))
             /\ (\E i \in 1..Len(SliceElems) : SliceElems[i] = <<>>) => ~valErr.isnil

\* C15, amended: `enum`/`cenum` on a []string without a trailing `opt` is
\* valid iff every element is one of the choices, so the empty slice is
\* valid and an empty-string element is invalid unless the empty string is
\* itself listed as a choice; with a trailing `opt` the result is the
\* `bad parameter` error for every slice, the empty one included.
C15_SliceEnumMembers ==
    (EnumDone /\ FieldIs(TSlice(TString))) =>
        IF TrailingOpt THEN valErr = ErrBadParameter
        ELSE /\ valErr.isnil = (\A i \in 1..Len(SliceElems) : IsChoice(SliceElems[i]))
             /\ (Len(SliceElems) = 0) => valErr.isnil
             /\ (/\ \E i \in 1..Len(SliceElems) : SliceElems[i] = <<>>
                 /\ \A k \in 1..Len(RuleChoices) : RuleChoices[k] # <<>>) => ~valErr.isnil

C15_Witness ==
    /\ EnumDone
    /\ valRule = [name |-> "enum", param |-> <<"a", "|", "|", "B">>]
    /\ valField = [type |-> TSlice(TString), val |-> MakeSlice(<<<<"b">>, <<>>>>)]
    /\ valErr.isnil

C15_WitnessOpt ==
    /\ EnumDone
    /\ valRule = [name |-> "cenum", param |-> <<"a", "|", "o", "p", "t">>]
    /\ valField = [type |-> TSlice(TString), val |-> MakeSlice(<<>>)]
    /\ valErr = ErrBadParameter

FieldString == Coalesce(valField).val
OptElsewhere == ~TrailingOpt /\ \E i \in 1..Len(RuleItems) : RuleItems[i] = optional
\* The choices as the failure message shows them.
ShownChoices == IF valRule.name = "enum" THEN Map(RuleChoices, "lower") ELSE RuleChoices

MinuteOf(x) == (((x.t[1] * 12 + x.t[2]) * 31 + x.t[3]) * 24 + x.t[4]) * 60 + x.t[5]
Earlier(x, y) ==
    \/ MinuteOf(x) < MinuteOf(y)
    \/ MinuteOf(x) = MinuteOf(y) /\ x.t[6] < y.t[6]
CompareNowDone == valPc = "done" /\ valRule.name = "comparenow"
Relations == {<<"g", "t", "e">>, <<"g", "t">>, <<"l", "t", "e">>, <<"l", "t">>}
\* The message a relation fails with for the time x, <<>> when it holds.
RelationFailure(rel, x) ==
    CASE rel = <<"g", "t", "e">> -> (IF Earlier(x, valNow) THEN <<"b", "e", "f", "o", "r", "e", " ", "n", "o", "w">> ELSE <<>>)
      [] rel = <<"g", "t">> -> (IF ~Earlier(valNow, x) THEN <<"b", "e", "f", "o", "r", "e", " ", "o", "r", " ", "a", "t", " ", "n", "o", "w">> ELSE <<>>)
      [] rel = <<"l", "t", "e">> -> (IF Earlier(valNow, x) THEN <<"a", "f", "t", "e", "r", " ", "n", "o", "w">> ELSE <<>>)
      [] rel = <<"l", "t">> -> (IF ~Earlier(x, valNow) THEN <<"a", "f", "t", "e", "r", " ", "o", "r", " ", "a", "t", " ", "n", "o", "w">> ELSE <<>>)

\* C17: `comparenow=REL` compares the field's time t with the registry's
\* now: gte fails with `before now` iff t < now, gt with `before or at now`
\* iff t <= now, lte with `after now` iff t > now, lt with `after or at
\* now` iff t >= now.  The zero time is compared like any other time,
\* unless the rule ends in `|opt`: then the zero time is valid.  A nil
\* *time.Time is valid under every rule.
C17_CompareNow ==
    CompareNowDone =>
        /\ (valField.type = TPtr(TTime) /\ valField.val.isnil) => valErr.isnil
        /\ (FieldIs(TTime) /\ Len(RuleChoices) = 1 /\ RuleChoices[1] \in Relations) =>
                LET x == Coalesce(valField).val
                    failure == RelationFailure(RuleChoices[1], x)
                IN valErr = IF failure = <<>> \/ (TrailingOpt /\ x = ZeroTime)
                            THEN NilError ELSE newError(failure)

C17_Witness ==
    /\ CompareNowDone
    /\ valRule.param = <<"g", "t", "|", "o", "p", "t">>
    /\ valField = [type |-> TTime, val |-> ZeroTime]
    /\ valErr.isnil

C17_WitnessFails ==
    /\ CompareNowDone
    /\ valRule.param = <<"g", "t">>
    /\ valField = [type |-> TPtr(TTime), val |-> PtrTo(testNow)]
    /\ valErr = newError(<<"b", "e", "f", "o", "r", "e", " ", "o", "r", " ", "a", "t", " ", "n", "o", "w">>)

Units == {<<"h", "o", "u", "r">>, <<"d", "a", "y">>}
\* now truncated to the unit.
Truncated(now, unit) ==
    IF unit = <<"h", "o", "u", "r">> THEN [t |-> <<now.t[1], now.t[2], now.t[3], now.t[4], 0, 0>>]
    ELSE [t |-> <<now.t[1], now.t[2], now.t[3], 0, 0, 0>>]
\* The message a relation fails with for the time x against the time n.
FailureAgainst(rel, x, n) ==
    CASE rel = <<"g", "t", "e">> -> (IF Earlier(x, n) THEN <<"b", "e", "f", "o", "r", "e", " ", "n", "o", "w">> ELSE <<>>)
      [] rel = <<"g", "t">> -> (IF ~Earlier(n, x) THEN <<"b", "e", "f", "o", "r", "e", " ", "o", "r", " ", "a", "t", " ", "n", "o", "w">> ELSE <<>>)
      [] rel = <<"l", "t", "e">> -> (IF Earlier(n, x) THEN <<"a", "f", "t", "e", "r", " ", "n", "o", "w">> ELSE <<>>)
      [] rel = <<"l", "t">> -> (IF ~Earlier(x, n) THEN <<"a", "f", "t", "e", "r", " ", "o", "r", " ", "a", "t", " ", "n", "o", "w">> ELSE <<>>)

\* C18: a comparenow rule of a unit and a relation, in either order and
\* with or without a trailing `opt` (hour|gte, day|lt|opt, lte|day), is
\* well formed: it is not answered with `bad parameter`, and the field is
\* held against now truncated to the unit under the relation.
C18_UnitAndRelationAccepted ==
    (/\ CompareNowDone /\ FieldIs(TTime)
     /\ Len(RuleChoices) = 2
     /\ \E i, j \in 1..2 : RuleChoices[i] \in Units /\ RuleChoices[j] \in Relations) =>
        LET unit == IF RuleChoices[1] \in Units THEN RuleChoices[1] ELSE RuleChoices[2]
            rel == IF RuleChoices[1] \in Units THEN RuleChoices[2] ELSE RuleChoices[1]
            x == Coalesce(valField).val
            failure == FailureAgainst(rel, x, Truncated(valNow, unit))
        IN /\ valErr # ErrBadParameter
           /\ valErr = IF failure = <<>> \/ (TrailingOpt /\ x = ZeroTime)
                       THEN NilError ELSE newError(failure)

\* The unit first: the rule is answered with `bad parameter`.
C18_UnitFirstRejected ==
    /\ CompareNowDone
    /\ valRule.param = <<"h", "o", "u", "r", "|", "g", "t", "e">>
    /\ valField = [type |-> TTime, val |-> laterDay]
    /\ valErr = ErrBadParameter

(***************************************************************************)
(* parallel.ForEach as a state machine: the calling goroutine and one      *)
(* goroutine per index, each step one operation on the channel, on the     *)
(* WaitGroup or on errs.  mariobros.Yo is a no-op unless mariobros was     *)
(* started, and is left out.                                               *)
(***************************************************************************)
MaxTotal == 3
MaxN == 2

NoReturn == [kind |-> "none", errors |-> <<>>]
NilReturn == [kind |-> "nil", errors |-> <<>>]
ErrInvalidParallelism == [kind |-> "invalid parallelism", errors |-> <<>>]
\* make([]error, total) with a negative total
MakeslicePanic == [kind |-> "panic", errors |-> <<>>]

Indices == 0..(parTotal - 1)

\* A send on a buffered channel of capacity n goes through only while
\* fewer than n values are buffered.
CanSendAlways(buffered, capacity) == TRUE
CanSend(buffered, capacity) == buffered < capacity

\* multierror.Append(nil, errs...).ErrorOrNil(): the non-nil errors in index
\* order, nil when there is none.  An error is named by its index.
RECURSIVE NonNil(_, _)
NonNil(errs, i) ==
    IF i \notin DOMAIN errs THEN <<>>
    ELSE (IF errs[i] = "nil" THEN <<>> ELSE <<i>>) \o NonNil(errs, i + 1)
ErrorOrNil(errs) ==
    IF NonNil(errs, 0) = <<>> THEN NilReturn
    ELSE [kind |-> "multierror", errors |-> NonNil(errs, 0)]

ParInit ==
    /\ BindIdle
    /\ ValIdle
    /\ PreIdle
    /\ MarIdle
    /\ RegIdle
    /\ RollIdle
    /\ parTotal \in -1..MaxTotal
    /\ parN \in -1..MaxN
    /\ parMain = "call"
    /\ parI = 0
    /\ parWorker = <<>>
    /\ parSem = 0
    /\ parWg = 0
    /\ parErrs = <<>>
    /\ parCalls = <<>>
    /\ parRet = NoReturn

parOtherVars == <<bindVars, valVars, preVars, rollVars, regVars, marVars>>

\* ForEach up to the loop: the check of n, the channel, errs, wg.Add(total)
ForEachCall ==
    /\ parMain = "call"
    /\ IF parN <= 0
       THEN /\ parRet' = ErrInvalidParallelism
            /\ parMain' = "done"
            /\ UNCHANGED <<parWorker, parErrs, parCalls, parWg>>
       ELSE IF parTotal < 0
       THEN /\ parRet' = MakeslicePanic
            /\ parMain' = "done"
            /\ UNCHANGED <<parWorker, parErrs, parCalls, parWg>>
       ELSE /\ parErrs' = [i \in Indices |-> "nil"]
            /\ parWorker' = [i \in Indices |-> "unborn"]
            /\ parCalls' = [i \in Indices |-> 0]
            /\ parWg' = parTotal
            /\ parMain' = "spawn"
            /\ UNCHANGED parRet
    /\ UNCHANGED <<parTotal, parN, parI, parSem, parOtherVars>>

\* for i := 0; i < total; i++ { go func(i int) {...}(i) }
Go ==
    /\ parMain = "spawn"
    /\ parI < parTotal
    /\ parWorker' = [parWorker EXCEPT ![parI] = "acquire"]
    /\ parI' = parI + 1
    /\ UNCHANGED <<parTotal, parN, parMain, parSem, parWg, parErrs, parCalls, parRet,
                   parOtherVars>>

\* the loop ends: the caller reaches wg.Wait()
LoopEnd ==
    /\ parMain = "spawn"
    /\ parI >= parTotal
    /\ parMain' = "wait"
    /\ UNCHANGED <<parTotal, parN, parI, parWorker, parSem, parWg, parErrs, parCalls,
                   parRet, parOtherVars>>

\* semaphore <- empty{}, after which process(i) is entered
Acquire(i) ==
    /\ parWorker[i] = "acquire"
    /\ CanSend(parSem, parN)
    /\ parSem' = parSem + 1
    /\ parWorker' = [parWorker EXCEPT ![i] = "process"]
    /\ parCalls' = [parCalls EXCEPT ![i] = @ + 1]
    /\ UNCHANGED <<parTotal, parN, parMain, parI, parWg, parErrs, parRet, parOtherVars>>

\* errs[i] = process(i): process returns nil or an error
Process(i) ==
    /\ parWorker[i] = "process"
    /\ \E result \in {"nil", "error"} : parErrs' = [parErrs EXCEPT ![i] = result]
    /\ parWorker' = [parWorker EXCEPT ![i] = "release"]
    /\ UNCHANGED <<parTotal, parN, parMain, parI, parSem, parWg, parCalls, parRet,
                   parOtherVars>>

\* <-semaphore
ReleaseKeeping(i) ==
    /\ parWorker[i] = "release"
    /\ parWorker' = [parWorker EXCEPT ![i] = "wgdone"]
    /\ UNCHANGED <<parTotal, parN, parMain, parI, parSem, parWg, parErrs, parCalls, parRet,
                   parOtherVars>>
Release(i) ==
    /\ parWorker[i] = "release"
    /\ parSem > 0
    /\ parSem' = parSem - 1
    /\ parWorker' = [parWorker EXCEPT ![i] = "wgdone"]
    /\ UNCHANGED <<parTotal, parN, parMain, parI, parWg, parErrs, parCalls, parRet,
                   parOtherVars>>

\* wg.Done(), the last statement of the goroutine
Done(i) ==
    /\ parWorker[i] = "wgdone"
    /\ parWg' = parWg - 1
    /\ parWorker' = [parWorker EXCEPT ![i] = "exit"]
    /\ UNCHANGED <<parTotal, parN, parMain, parI, parSem, parErrs, parCalls, parRet,
                   parOtherVars>>

\* wg.Wait() returns once the counter is zero; ForEach returns the errors
WaitReturn ==
    /\ parMain = "wait"
    /\ parWg = 0
    /\ parRet' = ErrorOrNil(parErrs)
    /\ parMain' = "done"
    /\ UNCHANGED <<parTotal, parN, parI, parWorker, parSem, parWg, parErrs, parCalls,
                   parOtherVars>>

Worker(i) ==
    \/ Acquire(i)
    \/ Process(i)
    \/ Release(i)
    \/ Done(i)

ParNext ==
    \/ ForEachCall
    \/ Go
    \/ LoopEnd
    \/ \E i \in DOMAIN parWorker : Worker(i)
    \/ WaitReturn

ParSpec == ParInit /\ [][ParNext]_vars

\* The indexes whose invocation of process is executing.
Executing == {i \in DOMAIN parWorker : parWorker[i] = "process"}
Blocked == {i \in DOMAIN parWorker : parWorker[i] = "acquire" /\ ~CanSend(parSem, parN)}

\* C19: during ForEach(total, n, process) with n > 0, in every reachable
\* state of every interleaving of the goroutines, at most n invocations of
\* process are executing.
C19_AtMostNExecuting ==
    parN > 0 => Cardinality(Executing) <= parN

\* n invocations execute at once while another goroutine waits for the
\* semaphore.
C19_Witness ==
    /\ parN = 2
    /\ parTotal > parN
    /\ Cardinality(Executing) = parN
    /\ Blocked # {}

(***************************************************************************)
(* The preflight middleware as a state machine: MiddlewareWithConfig, then *)
(* one request through the handler it returns, one step per call of        *)
(* cfg.Check, time.Sleep and next.  Durations are in milliseconds.         *)
(***************************************************************************)
MaxFailures == 60

DefaultMaxTotalWait == 30000
DefaultMaxRetryWait == 2000
FirstRetryWait == 50

\* The Config values of the package's tests (100ms and 1ms) and the zero
\* values that select the defaults.
TotalWaits == {0, 100}
RetryWaits == {0, 1, 100}
preConfigs ==
    {[Check |-> c, MaxTotalWait |-> t, MaxRetryWait |-> r] :
        c \in {"nil", "func"}, t \in TotalWaits, r \in RetryWaits}

\* How much longer than asked a time.Sleep takes, and how long a call of
\* cfg.Check takes.
Delays == {0, 1}

PreInit ==
    /\ BindIdle
    /\ ValIdle
    /\ ParIdle
    /\ MarIdle
    /\ RegIdle
    /\ RollIdle
    /\ preCfg \in preConfigs
    /\ prePc = "new"
    /\ preClock = 0
    /\ preGiveUpAt = 0
    /\ preRetryWait = 0
    /\ preChecks = <<>>
    /\ preSleeps = <<>>
    /\ preNextCalls = 0
    /\ preRet = "none"

preOtherVars == <<bindVars, valVars, parVars, rollVars, regVars, marVars>>

\* checkErr == nil
PassedCheckNever(checkErr) == FALSE
PassedCheck(checkErr) == checkErr = "nil"

Failures == {i \in DOMAIN preChecks : preChecks[i] # "nil"}
\* What a call of cfg.Check may return: the check is the caller's, and
\* fails at most MaxFailures times.
CheckResults ==
    IF Cardinality(Failures) < MaxFailures THEN {"nil", "error"} ELSE {"nil"}

Doubled(retryWait, maxRetryWait) ==
    IF retryWait * 2 > maxRetryWait THEN maxRetryWait ELSE retryWait * 2

\* MiddlewareWithConfig: a zero MaxTotalWait or MaxRetryWait gets its default
MiddlewareWithConfig ==
    /\ prePc = "new"
    /\ preCfg' = [preCfg EXCEPT
            !.MaxTotalWait = IF @ = 0 THEN DefaultMaxTotalWait ELSE @,
            !.MaxRetryWait = IF @ = 0 THEN DefaultMaxRetryWait ELSE @]
    /\ prePc' = "handler"
    /\ UNCHANGED <<preClock, preGiveUpAt, preRetryWait, preChecks, preSleeps,
                   preNextCalls, preRet, preOtherVars>>

\* the handler returned when cfg.Check is nil
NotConfigured ==
    /\ prePc = "handler"
    /\ preCfg.Check = "nil"
    /\ preRet' = "preflight check not configured"
    /\ prePc' = "done"
    /\ UNCHANGED <<preCfg, preClock, preGiveUpAt, preRetryWait, preChecks, preSleeps,
                   preNextCalls, preOtherVars>>

\* the first call of cfg.Check; when it fails, started, giveUpAt and
\* retryWait are set up
FirstCheck ==
    /\ prePc = "handler"
    /\ preCfg.Check # "nil"
    /\ \E checkErr \in CheckResults, d \in Delays :
        /\ preChecks' = Append(preChecks, checkErr)
        /\ preClock' = preClock + d
        /\ IF PassedCheck(checkErr)
           THEN /\ prePc' = "next"
                /\ UNCHANGED <<preGiveUpAt, preRetryWait>>
           ELSE /\ preGiveUpAt' = preClock' + preCfg.MaxTotalWait
                /\ preRetryWait' = FirstRetryWait
                /\ prePc' = "sleep"
    /\ UNCHANGED <<preCfg, preSleeps, preNextCalls, preRet, preOtherVars>>

\* time.Sleep(retryWait)
Sleep ==
    /\ prePc = "sleep"
    /\ \E d \in Delays : preClock' = preClock + preRetryWait + d
    /\ preSleeps' = Append(preSleeps, preRetryWait)
    /\ prePc' = "retry"
    /\ UNCHANGED <<preCfg, preGiveUpAt, preRetryWait, preChecks, preNextCalls, preRet,
                   preOtherVars>>

\* the call of cfg.Check in the loop and what follows it up to the next
\* time.Sleep
RetryCheck ==
    /\ prePc = "retry"
    /\ \E checkErr \in CheckResults, d \in Delays :
        /\ preChecks' = Append(preChecks, checkErr)
        /\ preClock' = preClock + d
        /\ IF PassedCheck(checkErr)
           THEN /\ prePc' = "next"
                /\ UNCHANGED <<preRetryWait, preRet>>
           ELSE IF preClock' > preGiveUpAt
           THEN /\ preRet' = "preflight checks failed"
                /\ prePc' = "done"
                /\ UNCHANGED preRetryWait
           ELSE /\ preRetryWait' = Doubled(preRetryWait, preCfg.MaxRetryWait)
                /\ prePc' = "sleep"
                /\ UNCHANGED preRet
    /\ UNCHANGED <<preCfg, preGiveUpAt, preSleeps, preNextCalls, preOtherVars>>

\* return next(c)
CallNext ==
    /\ prePc = "next"
    /\ preNextCalls' = preNextCalls + 1
    /\ \E result \in {"next returned nil", "next returned an error"} : preRet' = result
    /\ prePc' = "done"
    /\ UNCHANGED <<preCfg, preClock, preGiveUpAt, preRetryWait, preChecks, preSleeps,
                   preOtherVars>>

PreNext ==
    \/ MiddlewareWithConfig
    \/ NotConfigured
    \/ FirstCheck
    \/ Sleep
    \/ RetryCheck
    \/ CallNext

PreSpec == PreInit /\ [][PreNext]_vars

\* The calls of cfg.Check that returned nil, by their position.
Passes == {i \in DOMAIN preChecks : preChecks[i] = "nil"}

\* C20: next is invoked at most once, and only after a call of Check has
\* returned nil; the first call of Check that returns nil is the last call
\* of Check, the handler then stands right before its call of next or has
\* made it, and once the handler has returned next has been invoked exactly
\* once; so a request that reached next after k failed checks has called
\* Check exactly k+1 times (once when k = 0).
C20_NextOnceAfterFirstPass ==
    /\ preNextCalls <= 1
    /\ Passes = {} => preNextCalls = 0
    /\ Passes # {} =>
        /\ Passes = {Len(preChecks)}
        /\ prePc \in {"next", "done"}
        /\ prePc = "next" => preNextCalls = 0
        /\ prePc = "done" => preNextCalls = 1
        /\ Len(preChecks) = Cardinality(Failures) + 1

\* The check fails four times and then passes, as in the package's test.
C20_Witness ==
    /\ prePc = "done"
    /\ preNextCalls = 1
    /\ Cardinality(Failures) = 4
    /\ Len(preChecks) = 5

\* The check passes at once.
C20_WitnessAtOnce ==
    /\ prePc = "done"
    /\ preNextCalls = 1
    /\ preChecks = <<"nil">>

RECURSIVE SumOf(_)
SumOf(q) == IF q = <<>> THEN 0 ELSE Head(q) + SumOf(Tail(q))

\* The handler has given up: it returned the wrapped error of the last check.
GaveUp == prePc = "done" /\ preRet = "preflight checks failed"

\* C21: when the middleware gives up on a check that keeps failing, the
\* sleeps it has made add up to no more than MaxTotalWait.
C21_TotalWaitBounded ==
    GaveUp => SumOf(preSleeps) <= preCfg.MaxTotalWait

\* What the code does guarantee: it gives up only once more than
\* MaxTotalWait has passed since the first failed check, and every sleep
\* but the last began within MaxTotalWait.
C21_GivesUpLate ==
    GaveUp =>
        /\ preClock > preGiveUpAt
        /\ SumOf(SubSeq(preSleeps, 1, Len(preSleeps) - 1)) <= preCfg.MaxTotalWait

\* C22: every sleep before a retry is at most MaxRetryWait.
C22_SleepsWithinMaxRetryWait ==
    prePc \notin {"idle", "new"} =>
        \A i \in DOMAIN preSleeps : preSleeps[i] <= preCfg.MaxRetryWait

\* What the code does guarantee: the first sleep is 50ms whatever
\* MaxRetryWait is, and each later one is the smaller of twice the sleep
\* before it and MaxRetryWait.
C22_FirstSleepUncapped ==
    prePc \notin {"idle", "new"} =>
        \A i \in DOMAIN preSleeps :
            preSleeps[i] = IF i = 1 THEN FirstRetryWait
                           ELSE Doubled(preSleeps[i - 1], preCfg.MaxRetryWait)

(***************************************************************************)
(* kronos.RollMonth.  A time is modelled by its date <<year, month, day>>; *)
(* the time of day and the location pass through AddDate unchanged.        *)
(***************************************************************************)
MaxMonths == 25

\* Go's % truncates towards zero: the remainder has the sign of a.
GoRem(a, b) == IF a >= 0 THEN a % b ELSE -((-a) % b)

\* time.Date normalises a month outside 1..12 into the year, and a day
\* outside the month into the neighbouring month.
NormDate(y, m, d) ==
    LET y1 == y + ((m - 1) \div 12)
        m1 == ((m - 1) % 12) + 1
    IN  IF d = 0
        THEN (IF m1 = 1 THEN <<y1 - 1, 12, 31>> ELSE <<y1, m1 - 1, DaysIn(y1, m1 - 1)>>)
        ELSE IF d > DaysIn(y1, m1)
        THEN (IF m1 = 12 THEN <<y1 + 1, 1, d - DaysIn(y1, m1)>>
              ELSE <<y1, m1 + 1, d - DaysIn(y1, m1)>>)
        ELSE <<y1, m1, d>>

\* t.AddDate(years, months, days)
AddDate(t, years, months, days) == NormDate(t[1] + years, t[2] + months, t[3] + days)

offsetMonth(m, offset) ==
    LET zeroBased == m - 1
        shifted == zeroBased + offset
        wrapped == IF shifted < 0 THEN 12 + shifted ELSE shifted
    IN  1 + GoRem(wrapped, 12)

RollMonth(t, months) ==
    LET offsetDate == AddDate(t, 0, months, 0)
        targetMonth == offsetMonth(t[2], months)
    IN  IF offsetDate[2] # targetMonth
        THEN AddDate(offsetDate, 0, 0, -offsetDate[3])
        ELSE offsetDate

\* The dates of the package's tests: both kinds of year, every month, the
\* first of the month and the days a short month may lack.
rollYears == {2015, 2016}
rollDays == {1, 28, 29, 30, 31}
rollDates ==
    {<<y, m, d>> : y \in rollYears, m \in 1..12, d \in rollDays} \cap
    {<<y, m, d>> \in rollYears \X (1..12) \X rollDays : d <= DaysIn(y, m)}

RollInit ==
    /\ BindIdle
    /\ ValIdle
    /\ ParIdle
    /\ PreIdle
    /\ MarIdle
    /\ RegIdle
    /\ rollT \in rollDates
    /\ rollMonths \in -MaxMonths..MaxMonths
    /\ rollResult = <<1, 1, 1>>
    /\ rollPc = "call"

rollOtherVars == <<bindVars, valVars, parVars, preVars, regVars, marVars>>

CallRollMonth ==
    /\ rollPc = "call"
    /\ rollResult' = RollMonth(rollT, rollMonths)
    /\ rollPc' = "done"
    /\ UNCHANGED <<rollT, rollMonths, rollOtherVars>>

RollNext == CallRollMonth

RollSpec == RollInit /\ [][RollNext]_vars

\* The calendar month that lies `months` months from the month of t, and
\* the day of t cut down to the length of that month.
MonthsSinceYearZero(t) == t[1] * 12 + (t[2] - 1)
TargetYear == (MonthsSinceYearZero(rollT) + rollMonths) \div 12
TargetMonth == ((MonthsSinceYearZero(rollT) + rollMonths) % 12) + 1
Smaller(a, b) == IF a < b THEN a ELSE b
CalendarRoll ==
    <<TargetYear, TargetMonth, Smaller(rollT[3], DaysIn(TargetYear, TargetMonth))>>

\* C23: for every integer months, RollMonth(t, months) lies in the calendar
\* month that is `months` months from t's month, on day
\* min(day of t, days in that month).
C23_CalendarBasis ==
    rollPc = "done" => rollResult = CalendarRoll

\* What the code does guarantee: the same, as long as months does not go
\* back more than twelve months before January of t's year (or lands on a
\* January).
C23_NotFarBack ==
    (rollPc = "done" /\ (rollT[2] - 1 + rollMonths >= -12 \/ TargetMonth = 1)) =>
        rollResult = CalendarRoll

\* Mar 15 2016 - 15: the code returns Nov 30 2014 instead of Dec 15 2014.
C23_FarBackWrong ==
    /\ rollPc = "done"
    /\ rollT[2] - 1 + rollMonths < -12
    /\ rollResult # CalendarRoll

(***************************************************************************)
(* The registry of custom types: the package variable defaultCustomTypes,  *)
(* and Handlers with the maps newReflector and newBinder make for them.    *)
(* A map is an object: regMaps holds the maps made so far and a Handler    *)
(* holds the positions of its two maps in it.                              *)
(***************************************************************************)
MaxHandlers == 2
MaxRegistered == 2

\* type UnixTime time.Time, of the package's tests
TUnixTime == TStruct("UnixTime", <<>>)
unixTimeDef == [Type |-> TUnixTime, Parser |-> "unixtime", Defaulter |-> "double"]
unixTimePlainDef == [Type |-> TUnixTime, Parser |-> "unixtime", Defaulter |-> "none"]
\* What the model registers: UnixTime with its Defaulter process-wide, as
\* the package's tests do, and without one on single Handlers.
globalTypeDefs == {unixTimeDef}
handlerTypeDefs == {unixTimePlainDef}

\* struct { U UnixTime `default:"20"`; PU *UnixTime `default:"20"`;
\*          N int `default:"3"`; At time.Time }
customParams ==
    TStruct("customParams", <<
        Fld(<<"U">>, TUnixTime, ("default" :> <<"2", "0">>), NoRules),
        Fld(<<"P", "U">>, TPtr(TUnixTime), ("default" :> <<"2", "0">>), NoRules),
        Fld(<<"N">>, TInt, ("default" :> <<"3">>), NoRules),
        Fld(<<"A", "t">>, TTime, <<>>, NoRules) >>)

\* make(map[reflect.Type]...): a new map, distinct from every map made before
makeShared(heap) == 1
make(heap) == Len(heap) + 1

\* Handler.registerCustomType for each definition in turn, on the maps of
\* the handler h
RECURSIVE registerOnMaps(_, _, _, _)
registerOnMaps(heap, h, defs, i) ==
    IF i > Len(defs) THEN heap
    ELSE LET heap1 == [heap EXCEPT ![h.typeParsers] = Put(@, defs[i].Type, defs[i].Parser)]
             heap2 == [heap1 EXCEPT ![h.typeDefaulters] =
                                        Put(@, defs[i].Type, defs[i].Defaulter)]
         IN registerOnMaps(heap2, h, defs, i + 1)

\* The Handler i with its maps and the indexes of customParams, as the
\* binder uses it.
HandlerAt(i) ==
    [NewWith(customParams, <<>>) EXCEPT
        !.typeParsers = regMaps[regHandlers[i].typeParsers],
        !.typeDefaulters = regMaps[regHandlers[i].typeDefaulters]]

\* regBound before setFromDefaults ran; afterwards it holds the outcome r,
\* the struct v and the maps the Handler had at that time.
Unbound ==
    [r |-> "unbound", v |-> Zero(customParams),
     typeParsers |-> EmptyMap, typeDefaulters |-> EmptyMap]

RegInit ==
    /\ BindIdle
    /\ ValIdle
    /\ ParIdle
    /\ PreIdle
    /\ MarIdle
    /\ RollIdle
    /\ regDefaults = defaultCustomTypes
    /\ regMaps = <<>>
    /\ regHandlers = <<>>
    /\ regAtNew = <<>>
    /\ regOwn = <<>>
    /\ regBound = <<>>

regOtherVars == <<bindVars, valVars, parVars, preVars, rollVars, marVars>>

\* apiparams.RegisterCustomType(def): append to defaultCustomTypes
RegisterCustomType ==
    /\ Len(regDefaults) < Len(defaultCustomTypes) + MaxRegistered
    /\ \E def \in globalTypeDefs : regDefaults' = Append(regDefaults, def)
    /\ UNCHANGED <<regMaps, regHandlers, regAtNew, regOwn, regBound, regOtherVars>>

\* apiparams.New(adapter, &customParams{}, ...)
NewCustomHandler ==
    /\ Len(regHandlers) < MaxHandlers
    /\ LET parsers == make(regMaps)
           heap1 == Append(regMaps, EmptyMap)
           defaulters == make(heap1)
           heap2 == Append(heap1, EmptyMap)
           h == [typeParsers |-> parsers, typeDefaulters |-> defaulters]
       IN /\ regMaps' = registerOnMaps(heap2, h, regDefaults, 1)
          /\ regHandlers' = Append(regHandlers, h)
    /\ regAtNew' = Append(regAtNew, regDefaults)
    /\ regOwn' = Append(regOwn, <<>>)
    /\ regBound' = Append(regBound, Unbound)
    /\ UNCHANGED <<regDefaults, regOtherVars>>

\* ph.RegisterCustomType(def) on the Handler i
HandlerRegisterCustomType(i) ==
    /\ Len(regOwn[i]) < MaxRegistered
    /\ \E def \in handlerTypeDefs :
        /\ regMaps' = registerOnMaps(regMaps, regHandlers[i], <<def>>, 1)
        /\ regOwn' = [regOwn EXCEPT ![i] = Append(@, def)]
    /\ UNCHANGED <<regDefaults, regHandlers, regAtNew, regBound, regOtherVars>>

\* binder.setFromDefaults of the Handler i on its zero customParams
HandlerSetFromDefaults(i) ==
    /\ regBound[i] = Unbound
    /\ LET set == setFromDefaults(HandlerAt(i), customParams, Zero(customParams)) IN
        regBound' = [regBound EXCEPT
                        ![i] = [r |-> set.r, v |-> set.v,
                                typeParsers |-> HandlerAt(i).typeParsers,
                                typeDefaulters |-> HandlerAt(i).typeDefaulters]]
    /\ UNCHANGED <<regDefaults, regMaps, regHandlers, regAtNew, regOwn, regOtherVars>>

RegNext ==
    \/ RegisterCustomType
    \/ NewCustomHandler
    \/ \E i \in DOMAIN regHandlers : HandlerRegisterCustomType(i)
    \/ \E i \in DOMAIN regHandlers : HandlerSetFromDefaults(i)

RegSpec == RegInit /\ [][RegNext]_vars

\* The definition registered last for type t among defs.
LastDef(defs, t) ==
    defs[CHOOSE k \in DOMAIN defs :
            /\ defs[k].Type = t
            /\ \A j \in DOMAIN defs : defs[j].Type = t => j <= k]
TypesOf(defs) == {defs[k].Type : k \in DOMAIN defs}
ParsersOf(defs) == [t \in TypesOf(defs) |-> LastDef(defs, t).Parser]
DefaultersOf(defs) == [t \in TypesOf(defs) |-> LastDef(defs, t).Defaulter]

\* The parsers and the defaulters of the Handler i, in this state and in
\* the next.
HandlerParsers(i) == regMaps[regHandlers[i].typeParsers]
HandlerDefaulters(i) == regMaps[regHandlers[i].typeDefaulters]
HandlerParsersNext(i) == regMaps'[regHandlers'[i].typeParsers]
HandlerDefaultersNext(i) == regMaps'[regHandlers'[i].typeDefaulters]

HandlerKept(i) ==
    /\ HandlerParsersNext(i) = HandlerParsers(i)
    /\ HandlerDefaultersNext(i) = HandlerDefaulters(i)

FrameOfRegistryStep ==
    \* every Handler holds what the registry held when it was made, then
    \* what was registered on it
    /\ \A i \in DOMAIN regHandlers' :
        /\ HandlerParsersNext(i) = ParsersOf(regAtNew'[i] \o regOwn'[i])
        /\ HandlerDefaultersNext(i) = DefaultersOf(regAtNew'[i] \o regOwn'[i])
    \* a new Handler holds exactly the registry
    /\ \A i \in DOMAIN regHandlers' \ DOMAIN regHandlers :
        /\ HandlerParsersNext(i) = ParsersOf(regDefaults)
        /\ HandlerDefaultersNext(i) = DefaultersOf(regDefaults)
    \* registering on a Handler changes neither the registry nor another Handler
    /\ \A i \in DOMAIN regHandlers :
        regOwn'[i] # regOwn[i] =>
            /\ regDefaults' = regDefaults
            /\ \A j \in DOMAIN regHandlers \ {i} : HandlerKept(j)
    \* registering globally changes no Handler
    /\ regDefaults' # regDefaults => \A i \in DOMAIN regHandlers : HandlerKept(i)

\* C24: a Handler holds exactly the parsers and defaulters the registry held
\* when New made it, then those registered on it; Handler.RegisterCustomType
\* changes neither the registry nor any other Handler, and a later global
\* RegisterCustomType changes no Handler already made.
C24_HandlersIsolated == [][FrameOfRegistryStep]_vars

\* Two Handlers, the first made before a global registration and with a
\* registration of its own, hold different defaulters for UnixTime, and a
\* global registration made after both has reached neither.
C24_Witness ==
    /\ Len(regHandlers) = 2
    /\ regAtNew[1] = defaultCustomTypes
    /\ regAtNew[2] = defaultCustomTypes \o <<unixTimeDef>>
    /\ regOwn[1] = <<unixTimePlainDef>>
    /\ regOwn[2] = <<>>
    /\ HandlerDefaulters(1)[TUnixTime] = "none"
    /\ HandlerDefaulters(2)[TUnixTime] = "double"
    /\ regDefaults = regAtNew[2] \o <<unixTimeDef>>

\* The fields of customParams whose default T's parser parses: those of
\* type T and of type *T.
ParsedBy(t) ==
    {customParams.fields[k] : k \in DOMAIN customParams.fields} \cap
    {fd \in {customParams.fields[k] : k \in DOMAIN customParams.fields} :
        /\ "default" \in DOMAIN fd.Tag
        /\ fd.Type = t \/ fd.Type = TPtr(t)}
HasBoth(i, t) ==
    /\ t \in DOMAIN regBound[i].typeParsers
    /\ t \in DOMAIN regBound[i].typeDefaulters
    /\ regBound[i].typeDefaulters[t] # "none"
\* What T's parser makes of T's defaulter's output for the field fd.
DefaultedThenParsed(i, t, fd) ==
    ApplyParser(regBound[i].typeParsers[t],
                ApplyDefaulter(regBound[i].typeDefaulters[t], fd.Tag["default"]),
                fd.Type.kind = "ptr").v

\* C28: on a Handler that had both a Parser and a Defaulter for T, every
\* field of type T or *T with a default holds after setFromDefaults what
\* T's Parser makes of the Defaulter's output.
C28_DefaulterOnPointerFields ==
    \A i \in DOMAIN regHandlers :
        (regBound[i].r = "ok" /\ HasBoth(i, TUnixTime)) =>
            \A fd \in ParsedBy(TUnixTime) :
                regBound[i].v[fd.Name] = DefaultedThenParsed(i, TUnixTime, fd)

\* What the code does guarantee: the same for the fields of type T, while
\* a field of type *T gets its default parsed as written.
C28_DefaulterOnValueFieldsOnly ==
    \A i \in DOMAIN regHandlers :
        (regBound[i].r = "ok" /\ HasBoth(i, TUnixTime)) =>
            /\ regBound[i].v[<<"U">>] = [unix |-> 40]
            /\ regBound[i].v[<<"P", "U">>] = PtrTo([unix |-> 20])

(***************************************************************************)
(* parallel.ForEach under the scheduling Go gives: the caller and every    *)
(* goroutine that can take a step eventually takes one, and every call of  *)
(* process returns.                                                        *)
(***************************************************************************)
CallerStep == ForEachCall \/ Go \/ LoopEnd \/ WaitReturn
WorkerStep(i) == i \in DOMAIN parWorker /\ Worker(i)
ParFairness ==
    /\ WF_vars(CallerStep)
    /\ \A i \in 0..(MaxTotal - 1) : WF_vars(WorkerStep(i))
ParFairSpec == ParInit /\ [][ParNext]_vars /\ ParFairness

\* The goroutines whose call of process has returned.
Returned == {i \in DOMAIN parWorker : parWorker[i] \in {"release", "wgdone", "exit"}}
Proper == parN > 0 /\ parTotal >= 0
ForEachOnce ==
    Proper =>
        \* process is never invoked twice for an index
        /\ \A i \in DOMAIN parCalls : parCalls[i] <= 1
        /\ parMain = "done" =>
            \* invoked once for each index 0..total-1, and all have returned
            /\ DOMAIN parCalls = 0..(parTotal - 1)
            /\ \A i \in 0..(parTotal - 1) : parCalls[i] = 1
            /\ Returned = 0..(parTotal - 1)
            \* no goroutine is left at the semaphore
            /\ \A i \in DOMAIN parWorker : parWorker[i] = "exit"
            \* nil iff every invocation returned nil
            /\ (parRet = NilReturn) <=> (\A i \in DOMAIN parErrs : parErrs[i] = "nil")
            /\ parRet.kind \in {"nil", "multierror"}

BindsEmptyRequest == PointerToStruct /\ ~HasInvalidDefault(paramsType)

\* C26: for a parameter struct that binds without panic on an empty
\* request, whatever header, form, query or path names and values the
\* client supplies, BindFromAll does not panic: it returns nil or an
\* HTTPError.
C26_ClientInputNeverPanics ==
    BindsEmptyRequest => err # Panicked

\* Some key of the request's form, query or route parameters is the wire
\* name of a field that is not a top-level field of the struct.
OffersNestedName ==
    \E k \in DOMAIN req.Form \cup DOMAIN req.Query
                \cup {req.routeParamKeys[i] : i \in DOMAIN req.routeParamKeys} :
        /\ k \in DOMAIN ph.paramFieldsByJsonName
        /\ LET fieldDef == ph.paramFieldsByJsonName[k].StructField IN
           \/ FieldPathByName(paramsType, fieldDef.Name) = <<>>
           \/ fieldDef.Type.kind = "struct"
           \/ fieldDef.Type.kind = "slice" /\ fieldDef.Type.elem.kind = "struct"

\* With every `default` tag valid and a pointer passed, the call panics
\* only when the client names a field of a nested struct, or a field of a
\* struct or slice-of-struct type, which parseValue does not support.
C26_PanicsOnlyOnNestedName ==
    (BindsEmptyRequest /\ err = Panicked) => OffersNestedName

(***************************************************************************)
(* C27: what a failed parse leaves in the struct                           *)
(***************************************************************************)
\* The parameters the stage offers, in the order the loop visits them.
StageOffers(stage, keyOrder) ==
    CASE stage = "headers" -> LowerKeys(OffersOf(req.Header, keyOrder))
      [] stage = "form" -> OffersOf(req.Form, keyOrder)
      [] stage = "query" -> OffersOf(req.Query, keyOrder)
      [] stage = "path" -> PathOffers(req)

\* The step is a parameter stage ending in the 400 of a value that did not
\* parse.
ParseFails ==
    /\ pc \in ParamStages
    /\ pc' = "done"
    /\ err' = NewHTTPError(StatusBadRequest)

\* The field of the struct an offer targets.
TargetPath(offer) ==
    FieldPathByName(paramsType, ph.paramFieldsByJsonName[offer[1]].StructField.Name)

\* A step that fails to parse a value leaves the struct as the calls before
\* the failing one made it: the targeted field as it was before the failing
\* call, every other field as the earlier stages and the earlier calls of
\* this stage set it.
FailedParseKeepsStep ==
    ParseFails =>
        \E o \in KeyOrders(StageMap(pc)) :
            LET offers == StageOffers(pc, o) IN
            \E k \in 1..Len(offers) :
                LET before == setAll(ph, paramsType, hp, SubSeq(offers, 1, k - 1),
                                     SourceOfStage(pc))
                IN /\ before.r = "ok"
                   /\ binderSetField(ph, paramsType, before.hp, offers[k][1], offers[k][2],
                                     SourceOfStage(pc)).r = "err"
                   /\ GetAt(hp', TargetPath(offers[k])) = GetAt(before.hp, TargetPath(offers[k]))
                   /\ hp' = before.hp

\* C27: when a header, form, query or path value fails to parse, the
\* targeted field keeps the value it had before the failing call (its
\* default, the value an earlier stage set, or for a slice the elements
\* accumulated so far), and the fields set earlier in the same bind call
\* are not rolled back.
C27_FailedParseKeepsFields == [][FailedParseKeepsStep]_vars

\* ints=1&ints=abc on top of a body that set ints to [7, 8]: the call ends
\* in a 400 with Ints holding the body's elements and the one appended
\* before the failing value.
C27_Witness ==
    /\ paramsType = sliceParams
    /\ pc = "done" /\ Last(applied) = "query"
    /\ err = NewHTTPError(StatusBadRequest)
    /\ hp[<<"I", "n", "t", "s">>] = MakeSlice(<<7, 8, 1>>)

\* x=abc in the query on top of a body that set x to 3: the call ends in a
\* 400 with X still 3.
C27_WitnessScalar ==
    /\ paramsType = scalarParams
    /\ pc = "done" /\ Last(applied) = "query"
    /\ err = NewHTTPError(StatusBadRequest)
    /\ hp[<<"X">>] = 3

(***************************************************************************)
(* mariobros: Start, Yo, the callbacks Yo returns and the reporter         *)
(***************************************************************************)
MaxYo == 2
MaxStarts == 2

Goroutines == 1..MaxYo
Names == {"my.job", "other.job"}
\* The Options passed to Start: NewOptions() as it is, and with MARIOBROS=1
\* and a KeyValueWriter.
StartOptions == {[Interval |-> 5, Writer |-> "stdout"], [Interval |-> 1, Writer |-> "logger"]}

NoReport == [taken |-> FALSE, total |-> 0, ids |-> {}]

\* newMariobros, with MaxYo goroutines that have yet to call Yo
MarInit ==
    /\ BindIdle
    /\ ValIdle
    /\ ParIdle
    /\ PreIdle
    /\ RollIdle
    /\ RegIdle
    /\ marEnabled = 0
    /\ marInterval = 0
    /\ marWriter = "nil"
    /\ marMutex = 0
    /\ marIndex = 0
    /\ marActive = 0
    /\ marRegistry = EmptyMap
    /\ marStarts = 0
    /\ marReporters = 0
    /\ marPc = [t \in Goroutines |-> "idle"]
    /\ marName = [t \in Goroutines |-> ""]
    /\ marId = [t \in Goroutines |-> 0]
    /\ marIssued = <<>>
    /\ marRepPc = "off"
    /\ marRepTodo = {}
    /\ marRepVisited = {}
    /\ marRepSeen = {}
    /\ marReport = NoReport
    /\ marFatal = FALSE

marOtherVars == <<bindVars, valVars, parVars, preVars, rollVars, regVars>>
marReporterVars == <<marRepTodo, marRepVisited, marRepSeen, marReport>>
marCallerVars == <<marPc, marName, marId, marIssued>>
marConfigVars == <<marEnabled, marInterval, marWriter, marStarts, marReporters>>

\* Start(opts): under the mutex; a no-op when enabledFast is already 1,
\* else it stores the options and starts the reporter goroutine.
Start ==
    /\ ~marFatal
    /\ marStarts < MaxStarts
    /\ marMutex = 0
    /\ marStarts' = marStarts + 1
    /\ \E opts \in StartOptions :
        IF marEnabled = 1
        THEN UNCHANGED <<marEnabled, marInterval, marWriter, marReporters, marRepPc>>
        ELSE /\ marEnabled' = 1
             /\ marInterval' = opts.Interval
             /\ marWriter' = opts.Writer
             /\ marReporters' = marReporters + 1
             /\ marRepPc' = "wait"
    /\ UNCHANGED <<marMutex, marIndex, marActive, marRegistry, marCallerVars,
                   marReporterVars, marFatal, marOtherVars>>

\* Yo(name) up to the first load of enabledFast: noop when it is 0.
YoCall(t) ==
    /\ ~marFatal
    /\ marPc[t] = "idle"
    /\ \E name \in Names : marName' = [marName EXCEPT ![t] = name]
    /\ marPc' = [marPc EXCEPT ![t] = IF marEnabled = 0 THEN "noop" ELSE "lock"]
    /\ UNCHANGED <<marMutex, marIndex, marActive, marRegistry, marId, marIssued,
                   marConfigVars, marRepPc, marReporterVars, marFatal, marOtherVars>>

\* mb.mutex.Lock(), the second load of enabledFast, mb.goroutineIndex++
YoLock(t) ==
    /\ ~marFatal
    /\ marPc[t] = "lock"
    /\ marMutex = 0
    /\ IF marEnabled = 0
       THEN /\ marPc' = [marPc EXCEPT ![t] = "noop"]
            /\ UNCHANGED <<marMutex, marIndex>>
       ELSE /\ marMutex' = t
            /\ marIndex' = marIndex + 1
            /\ marPc' = [marPc EXCEPT ![t] = "active"]
    /\ UNCHANGED <<marActive, marRegistry, marName, marId, marIssued,
                   marConfigVars, marRepPc, marReporterVars, marFatal, marOtherVars>>

\* mb.activeGoroutines++; thisId := mb.goroutineIndex
YoActive(t) ==
    /\ ~marFatal
    /\ marPc[t] = "active"
    /\ marActive' = marActive + 1
    /\ marId' = [marId EXCEPT ![t] = marIndex]
    /\ marPc' = [marPc EXCEPT ![t] = "register"]
    /\ UNCHANGED <<marMutex, marIndex, marRegistry, marName, marIssued,
                   marConfigVars, marRepPc, marReporterVars, marFatal, marOtherVars>>

\* The set held for name, empty when the registry has no entry for it.
nameRegistry(registry, name) ==
    IF name \in DOMAIN registry THEN registry[name] ELSE {}

\* nameRegistry[thisId] = struct{}{}, after making the set when the name is
\* new.
registerId(registry, name, id) ==
    Put(registry, name, nameRegistry(registry, name) \cup {id})

\* The rest of Yo: the registration, the return of the callback and the
\* deferred Unlock.
YoRegister(t) ==
    /\ ~marFatal
    /\ marPc[t] = "register"
    /\ marRegistry' = registerId(marRegistry, marName[t], marId[t])
    /\ marIssued' = Append(marIssued, marId[t])
    /\ marMutex' = 0
    /\ marPc' = [marPc EXCEPT ![t] = "issued"]
    /\ UNCHANGED <<marIndex, marActive, marName, marId,
                   marConfigVars, marRepPc, marReporterVars, marFatal, marOtherVars>>

\* delete(nameRegistry, thisId)
deleteIdNot(registry, name, id) == registry
deleteId(registry, name, id) ==
    [registry EXCEPT ![name] = @ \ {id}]

\* The callback: mb.mutex.Lock(); delete(nameRegistry, thisId)
CallbackDelete(t) ==
    /\ ~marFatal
    /\ marPc[t] = "issued"
    /\ marMutex = 0
    /\ marMutex' = t
    /\ marRegistry' = deleteId(marRegistry, marName[t], marId[t])
    /\ marPc' = [marPc EXCEPT ![t] = "dec"]
    /\ UNCHANGED <<marIndex, marActive, marName, marId, marIssued,
                   marConfigVars, marRepPc, marReporterVars, marFatal, marOtherVars>>

\* mb.activeGoroutines--; mb.mutex.Unlock()
CallbackDec(t) ==
    /\ ~marFatal
    /\ marPc[t] = "dec"
    /\ marActive' = marActive - 1
    /\ marMutex' = 0
    /\ marPc' = [marPc EXCEPT ![t] = "done"]
    /\ UNCHANGED <<marIndex, marRegistry, marName, marId, marIssued,
                   marConfigVars, marRepPc, marReporterVars, marFatal, marOtherVars>>

\* noop()
Noop(t) ==
    /\ ~marFatal
    /\ marPc[t] = "noop"
    /\ marPc' = [marPc EXCEPT ![t] = "done"]
    /\ UNCHANGED <<marMutex, marIndex, marActive, marRegistry, marName, marId, marIssued,
                   marConfigVars, marRepPc, marReporterVars, marFatal, marOtherVars>>

\* A registration or a completion is under way: some goroutine is inside
\* the critical section that writes the maps of the registry.
WritingMap == marMutex # 0

\* The reporter: a tick arrives and the range over mb.goroutineRegistry
\* begins.  The reporter takes no lock.
Tick ==
    /\ ~marFatal
    /\ marRepPc = "wait"
    /\ marRepPc' = "range"
    /\ marRepTodo' = DOMAIN marRegistry
    /\ marRepVisited' = {}
    /\ marRepSeen' = {}
    /\ UNCHANGED <<marMutex, marIndex, marActive, marRegistry, marCallerVars,
                   marConfigVars, marReport, marFatal, marOtherVars>>

\* One round of the range: the ids of one name are appended to
\* activePerName.  A name entered since the range began may be visited or
\* not.  Read while another goroutine writes the map, the runtime may end
\* the process (concurrent map iteration and map write).
ReadName ==
    /\ ~marFatal
    /\ marRepPc = "range"
    /\ \E name \in (marRepTodo \cup DOMAIN marRegistry) \ marRepVisited :
        \/ /\ marRepSeen' = marRepSeen \cup {<<name, id>> : id \in marRegistry[name]}
           /\ marRepTodo' = marRepTodo \ {name}
           /\ marRepVisited' = marRepVisited \cup {name}
           /\ UNCHANGED marFatal
        \/ /\ WritingMap
           /\ marFatal' = TRUE
           /\ UNCHANGED <<marRepTodo, marRepVisited, marRepSeen>>
    /\ UNCHANGED <<marMutex, marIndex, marActive, marRegistry, marCallerVars,
                   marConfigVars, marRepPc, marReport, marOtherVars>>

\* mb.writer(mb.activeGoroutines, activePerName), once the range is over
Report ==
    /\ ~marFatal
    /\ marRepPc = "range"
    /\ marRepTodo = {}
    /\ marReport' = [taken |-> TRUE, total |-> marActive, ids |-> marRepSeen]
    /\ marRepPc' = "written"
    /\ marRepTodo' = {}
    /\ marRepVisited' = {}
    /\ marRepSeen' = {}
    /\ UNCHANGED <<marMutex, marIndex, marActive, marRegistry, marCallerVars,
                   marConfigVars, marFatal, marOtherVars>>

\* mb.writer returns and the reporter waits for the next tick.
Written ==
    /\ ~marFatal
    /\ marRepPc = "written"
    /\ marReport' = NoReport
    /\ marRepPc' = "wait"
    /\ UNCHANGED <<marMutex, marIndex, marActive, marRegistry, marCallerVars,
                   marConfigVars, marRepTodo, marRepVisited, marRepSeen, marFatal,
                   marOtherVars>>

Caller(t) ==
    \/ YoCall(t)
    \/ YoLock(t)
    \/ YoActive(t)
    \/ YoRegister(t)
    \/ CallbackDelete(t)
    \/ CallbackDec(t)
    \/ Noop(t)

MarNext ==
    \/ Start
    \/ \E t \in Goroutines : Caller(t)
    \/ Tick
    \/ ReadName
    \/ Report
    \/ Written

MarSpec == MarInit /\ [][MarNext]_vars

(***************************************************************************)
(* C29: the bookkeeping of Yo and its callbacks                            *)
(***************************************************************************)
\* The ids held in goroutineRegistry, with the name each is held under.
RegisteredIds ==
    UNION {{<<name, id>> : id \in marRegistry[name]} : name \in DOMAIN marRegistry}

\* No call of Yo or of a callback is inside its critical section.
BetweenCalls == marMutex = 0

\* Every callback Yo has returned has run.
AllCallbacksRan == \A t \in Goroutines : marPc[t] \in {"idle", "lock", "noop", "done"}

\* The instance is as newMariobros made it.
Untouched ==
    /\ marIndex = 0
    /\ marActive = 0
    /\ marRegistry = EmptyMap
    /\ marIssued = <<>>
    /\ \A t \in Goroutines : marId[t] = 0 /\ marPc[t] \in {"idle", "noop", "done"}

\* C29: after Start, between any two of the calls of Yo and of the
\* callbacks (each callback called at most once), activeGoroutines is the
\* number of ids held in goroutineRegistry over all names; the ids issued
\* are strictly increasing, hence unique; once every callback has run,
\* activeGoroutines is 0 and every per-name set is empty; before Start, Yo
\* returns the no-op and changes nothing.
C29_RegistryAccounting ==
    /\ BetweenCalls => marActive = Cardinality(RegisteredIds)
    /\ \A i, j \in DOMAIN marIssued : i < j => marIssued[i] < marIssued[j]
    /\ \A t, u \in Goroutines : (t # u /\ marId[t] # 0) => marId[t] # marId[u]
    /\ AllCallbacksRan =>
            marActive = 0 /\ \A name \in DOMAIN marRegistry : marRegistry[name] = {}
    /\ marEnabled = 0 => Untouched

\* Two ids were issued under one name and the first callback has run.
C29_Witness ==
    /\ marIssued = <<1, 2>>
    /\ marRegistry = ("my.job" :> {2})
    /\ marActive = 1
    /\ BetweenCalls
    /\ \E t \in Goroutines : marPc[t] = "done" /\ marId[t] = 1

\* Both callbacks have run, after a Yo under each name.
C29_WitnessAllRan ==
    /\ Len(marIssued) = MaxYo
    /\ DOMAIN marRegistry = Names
    /\ AllCallbacksRan
    /\ marActive = 0

\* A goroutine called Yo before Start and got the no-op; another called it
\* after Start.
C29_WitnessNoop ==
    /\ \E t \in Goroutines : marPc[t] = "done" /\ marId[t] = 0
    /\ \E t \in Goroutines : marPc[t] = "issued"

(***************************************************************************)
(* C30: the reporter                                                       *)
(***************************************************************************)
\* C30 as stated: the reporter reads the registry and the counter only
\* while no registration or completion is under way, every report's total
\* is the number of ids it lists, and the process is not ended by the
\* runtime.
C30_ReporterExcluded ==
    /\ marRepPc = "range" => marMutex = 0
    /\ marReport.taken => marReport.total = Cardinality(marReport.ids)
    /\ ~marFatal

\* A step of a second call of Start.
SecondStartStep ==
    (marEnabled = 1 /\ marStarts' = marStarts + 1) =>
        UNCHANGED <<marEnabled, marInterval, marWriter, marReporters, marRepPc,
                    marMutex, marIndex, marActive, marRegistry>>

\* The part of C30 that holds: a second call of Start starts no second
\* reporter and leaves interval and writer as the first call set them.
C30_SecondStartNoop == [][SecondStartStep]_vars

\* There is never more than one reporter.
C30_OneReporter == marReporters <= 1

\* A report whose total is not the number of ids it lists.
C30_TornReport ==
    /\ marReport.taken
    /\ marReport.total # Cardinality(marReport.ids)

=============================================================================
